---- MODULE Spec2Model ----
(***************************************************************************)
(* The pronunciation-grading engine of src/utils.py: normalize_text,       *)
(* remove_greek_accents, normalize_greek_i_sound, number_to_greek,         *)
(* levenshtein_distance, word_similarity, compare_texts_detailed and       *)
(* compare_texts.                                                          *)
(*                                                                         *)
(* A Python str is a sequence of one-character strings, so "φιλος" is      *)
(* <<"φ","ι","λ","ο","ς">> and "" is <<>>.  A Python float is the binary64 *)
(* value the program computes, with each operation rounded as the machine  *)
(* rounds it (0.1 + 0.2 is not 0.3, and 1 - 1/5 - 0.2 is above 0.6).       *)
(* Python's None is the value None below (a list index that is None is     *)
(* NoIdx).                                                                 *)
(*                                                                         *)
(* Characters: a character that a TLA+ string can hold is written as       *)
(* itself; these are the ASCII characters other than the double quote, the *)
(* backslash and the backquote, and the characters of the Basic            *)
(* Multilingual Plane whose code point ends in a byte of 0x80 or more (all *)
(* of Greek, U+0380 to U+03FF, among them).  Every other character is      *)
(* written as its code point, "U+" and four to six capital hexadecimal     *)
(* digits: the em space is "U+2003", the Arabic-Indic digit one "U+0661".  *)
(* The tables of str.isspace, str.isdigit, str.lower and of the decimal    *)
(* digit values are those of Python 3.11 (Unicode 14.0) for every code     *)
(* point.                                                                  *)
(***************************************************************************)
EXTENDS Integers, Sequences, FiniteSets, TLC

VARIABLES
    fn,             \* the function under call
    pc,             \* "call": arguments bound, body not run; "loop": inside the
                    \* reference loop of compare_texts_detailed; "done": returned;
                    \* "renormalized": normalize_text returned for its own result
    user_text,      \* first argument  (user_text / word1 / text)
    correct_text,   \* second argument (correct_text / word2)
    user_words,     \* compare_texts_detailed: user_normalized.split()
    correct_words,  \* compare_texts_detailed: correct_normalized.split()
    user_idx,       \* compare_texts_detailed: the cursor into user_words
    correct_idx,    \* compare_texts_detailed: the next reference index
    mistakes,       \* compare_texts_detailed: the mistake list so far
    result          \* the returned value (NoResult until pc = "done")

vars == <<fn, pc, user_text, correct_text, user_words, correct_words,
          user_idx, correct_idx, mistakes, result>>

None == <<"None">>
NoIdx == 0 - 1
NoResult == <<"NoResult">>

(***************************************************************************)
(* Python's float: IEEE 754 binary64 with rounding to the nearest, ties to *)
(* even.  A float is <<s, m, e>>: s is 1 or -1, m is the significand of 53 *)
(* bits as a natural number written in limbs of LimbBits bits, the least   *)
(* significant first, and the value is s * m * 2^e.  0.0 is <<1, <<>>, 0>>. *)
(***************************************************************************)
Abs(n) == IF n < 0 THEN 0 - n ELSE n

\* the limbs are small enough for the product of two of them to be a TLC
\* integer
LimbBits == 14

\* 2^k for 0 <= k <= 30
RECURSIVE Pow2(_)
Pow2(k) == IF k = 0 THEN 1 ELSE 2 * Pow2(k - 1)

LimbBase == Pow2(LimbBits)

\* the number of bits of n >= 0
RECURSIVE BitLen(_)
BitLen(n) == IF n = 0 THEN 0 ELSE 1 + BitLen(n \div 2)

\* a natural number without its leading zero limbs
RECURSIVE BigNorm(_)
BigNorm(a) ==
    IF a # <<>> /\ a[Len(a)] = 0 THEN BigNorm(SubSeq(a, 1, Len(a) - 1)) ELSE a

RECURSIVE BigFromInt(_)
BigFromInt(n) ==
    IF n = 0 THEN <<>> ELSE <<n % LimbBase>> \o BigFromInt(n \div LimbBase)

Limb0(a) == IF a = <<>> THEN 0 ELSE a[1]
Rest(a) == IF a = <<>> THEN <<>> ELSE Tail(a)

\* a + b + c for a carry c
RECURSIVE BigAddCarry(_, _, _)
BigAddCarry(a, b, c) ==
    IF a = <<>> /\ b = <<>> THEN BigFromInt(c)
    ELSE <<(Limb0(a) + Limb0(b) + c) % LimbBase>>
            \o BigAddCarry(Rest(a), Rest(b), (Limb0(a) + Limb0(b) + c) \div LimbBase)

BigAdd(a, b) == BigAddCarry(a, b, 0)

\* a - b - c for a >= b + c and a borrow c
RECURSIVE BigSubBorrow(_, _, _)
BigSubBorrow(a, b, c) ==
    IF a = <<>> THEN <<>>
    ELSE <<(a[1] - Limb0(b) - c + LimbBase) % LimbBase>>
            \o BigSubBorrow(Tail(a), Rest(b),
                            IF a[1] - Limb0(b) - c < 0 THEN 1 ELSE 0)

BigSub(a, b) == BigNorm(BigSubBorrow(a, b, 0))

\* -1, 0, 1 as a < b, a = b, a > b, for numbers without leading zero limbs
RECURSIVE BigCmp(_, _)
BigCmp(a, b) ==
    IF Len(a) # Len(b) THEN (IF Len(a) < Len(b) THEN 0 - 1 ELSE 1)
    ELSE IF a = <<>> THEN 0
    ELSE IF a[Len(a)] # b[Len(b)]
         THEN (IF a[Len(a)] < b[Len(b)] THEN 0 - 1 ELSE 1)
    ELSE BigCmp(SubSeq(a, 1, Len(a) - 1), SubSeq(b, 1, Len(b) - 1))

\* a * k + c for 0 <= k, c < 2^15
RECURSIVE BigMulSmall(_, _, _)
BigMulSmall(a, k, c) ==
    IF a = <<>> THEN BigFromInt(c)
    ELSE <<(a[1] * k + c) % LimbBase>>
            \o BigMulSmall(Tail(a), k, (a[1] * k + c) \div LimbBase)

RECURSIVE BigMul(_, _)
BigMul(a, b) ==
    IF b = <<>> THEN <<>>
    ELSE BigNorm(BigAdd(BigMulSmall(a, b[1], 0), <<0>> \o BigMul(a, Tail(b))))

\* the quotient of a by d for 0 < d < 2^15, from the most significant limb
\* on, with r the remainder so far
RECURSIVE BigDivSmallFrom(_, _, _)
BigDivSmallFrom(a, d, r) ==
    IF a = <<>> THEN <<>>
    ELSE Append(BigDivSmallFrom(SubSeq(a, 1, Len(a) - 1), d,
                                (r * LimbBase + a[Len(a)]) % d),
                (r * LimbBase + a[Len(a)]) \div d)

BigDivSmall(a, d) == BigNorm(BigDivSmallFrom(a, d, 0))

RECURSIVE BigModSmall(_, _, _)
BigModSmall(a, d, r) ==
    IF a = <<>> THEN r
    ELSE BigModSmall(SubSeq(a, 1, Len(a) - 1), d, (r * LimbBase + a[Len(a)]) % d)

RECURSIVE Zeros(_)
Zeros(n) == IF n = 0 THEN <<>> ELSE <<0>> \o Zeros(n - 1)

\* a * 2^k
BigShl(a, k) ==
    IF a = <<>> THEN <<>>
    ELSE Zeros(k \div LimbBits) \o BigMulSmall(a, Pow2(k % LimbBits), 0)

\* a \div 2^k
BigShr(a, k) ==
    IF k \div LimbBits >= Len(a) THEN <<>>
    ELSE BigDivSmall(SubSeq(a, k \div LimbBits + 1, Len(a)), Pow2(k % LimbBits))

BigBitLen(a) ==
    IF a = <<>> THEN 0 ELSE LimbBits * (Len(a) - 1) + BitLen(a[Len(a)])

BigOdd(a) == a # <<>> /\ a[1] % 2 = 1

FZero == <<1, <<>>, 0>>

\* s * m * 2^e for m of 53 bits or 54 (after a carry of the rounding)
FPack(s, m, e) ==
    IF BigBitLen(m) = 54 THEN <<s, BigShr(m, 1), e + 1>> ELSE <<s, m, e>>

\* the float nearest to s * n * 2^e for n of more than 53 bits, of which q2
\* holds the first 54: ties go to the even significand
FRoundTo(s, n, e, k, q2) ==
    IF BigOdd(q2) /\ (BigOdd(BigShr(q2, 1)) \/ BigShl(q2, k - 1) # n)
    THEN FPack(s, BigAdd(BigShr(q2, 1), <<1>>), e + k)
    ELSE <<s, BigShr(q2, 1), e + k>>

\* the float nearest to s * n * 2^e
FRound(s, n, e) ==
    IF n = <<>> THEN FZero
    ELSE IF BigBitLen(n) <= 53
         THEN <<s, BigShl(n, 53 - BigBitLen(n)), e - (53 - BigBitLen(n))>>
    ELSE FRoundTo(s, n, e, BigBitLen(n) - 53, BigShr(n, BigBitLen(n) - 54))

\* the quotient of n, shifted left by six limbs, by d with a last bit that says whether the
\* division left a remainder
StickyQuotient(n, d) ==
    BigMulSmall(BigDivSmall(Zeros(6) \o n, d), 2,
                IF BigModSmall(Zeros(6) \o n, d, 0) # 0 THEN 1 ELSE 0)

\* the float nearest to n / d for integers n and 0 < d < 2^15
FloatOf(n, d) ==
    FRound(IF n < 0 THEN 0 - 1 ELSE 1, StickyQuotient(BigFromInt(Abs(n)), d),
           0 - (6 * LimbBits + 1))

\* most quotients the graders form are of small integers: these are computed
\* once
MaxFloatArg == 100

SmallFloats == [n \in 0..MaxFloatArg |-> [d \in 1..MaxFloatArg |-> FloatOf(n, d)]]

\* the float of n / d for integers n and 0 < d < 2^15: a literal such as 0.85
\* is Float(85, 100), and float(n) is Float(n, 1)
Float(n, d) ==
    IF n \in 0..MaxFloatArg /\ d \in 1..MaxFloatArg THEN SmallFloats[n][d] ELSE FloatOf(n, d)

\* x / k for an integer 0 < k < 2^15
FDivInt(x, k) == FRound(x[1], StickyQuotient(x[2], k), x[3] - (6 * LimbBits + 1))

FMul(x, y) == FRound(x[1] * y[1], BigMul(x[2], y[2]), x[3] + y[3])

FNeg(x) == IF x[2] = <<>> THEN x ELSE <<0 - x[1], x[2], x[3]>>

\* x + y for the two significands a and b at the common exponent e
FAddAligned(sx, a, sy, b, e) ==
    IF sx = sy THEN FRound(sx, BigAdd(a, b), e)
    ELSE IF BigCmp(a, b) >= 0 THEN FRound(sx, BigSub(a, b), e)
    ELSE FRound(sy, BigSub(b, a), e)

FAdd(x, y) ==
    IF x[2] = <<>> THEN y
    ELSE IF y[2] = <<>> THEN x
    ELSE IF x[3] <= y[3]
         THEN FAddAligned(x[1], x[2], y[1], BigShl(y[2], y[3] - x[3]), x[3])
    ELSE FAddAligned(x[1], BigShl(x[2], x[3] - y[3]), y[1], y[2], y[3])

FSub(x, y) == FAdd(x, FNeg(y))

\* x < y for two floats of the sign 1
FLtMagnitude(x, y) ==
    IF y[2] = <<>> THEN FALSE
    ELSE IF x[2] = <<>> THEN TRUE
    ELSE IF x[3] # y[3] THEN x[3] < y[3]
    ELSE BigCmp(x[2], y[2]) < 0

FLt(x, y) ==
    IF x[1] # y[1] THEN x[1] < y[1]
    ELSE IF x[1] = 1 THEN FLtMagnitude(x, y)
    ELSE FLtMagnitude(<<1, y[2], y[3]>>, <<1, x[2], x[3]>>)

FLe(x, y) == ~FLt(y, x)
FGt(x, y) == FLt(y, x)
FGe(x, y) == ~FLt(x, y)
\* max(x, y): the first argument unless the second is greater
FMax(x, y) == IF FGt(y, x) THEN y ELSE x
Zero == FZero
One == Float(1, 1)

(***************************************************************************)
(* Python str and list primitives.                                         *)
(***************************************************************************)
Min2(a, b) == IF a < b THEN a ELSE b
Max2(a, b) == IF a < b THEN b ELSE a

\* s[i:j] for 0 <= i, with Python's clipping of j
Slice(s, i, j) ==
    LET hi == Min2(j, Len(s))
    IN  IF i >= hi THEN <<>> ELSE SubSeq(s, i + 1, hi)

\* x in xs, for a list xs
InList(x, xs) == \E i \in 1..Len(xs) : xs[i] = x

RECURSIVE Filter(_, _)
Filter(xs, S) ==
    IF xs = <<>> THEN <<>>
    ELSE IF xs[1] \in S THEN <<xs[1]>> \o Filter(Tail(xs), S)
    ELSE Filter(Tail(xs), S)

RECURSIVE FilterOut(_, _)
FilterOut(xs, S) ==
    IF xs = <<>> THEN <<>>
    ELSE IF xs[1] \in S THEN FilterOut(Tail(xs), S)
    ELSE <<xs[1]>> \o FilterOut(Tail(xs), S)

\* the characters str.isspace() is true of: strip() removes them and
\* split() separates at them
Whitespace == {
    "\t", "\n", "", "\f", "\r", "", "", "", "", " ",
    "", " ", " ", "U+2000", "U+2001", "U+2002", "U+2003", "U+2004", "U+2005", "U+2006",
    "U+2007", "U+2008", "U+2009", "U+200A", "U+2028", "U+2029", "U+202F", "U+205F", "U+3000"
}

RECURSIVE LStrip(_)
LStrip(s) == IF s # <<>> /\ s[1] \in Whitespace THEN LStrip(Tail(s)) ELSE s

RECURSIVE RStrip(_)
RStrip(s) ==
    IF s # <<>> /\ s[Len(s)] \in Whitespace
    THEN RStrip(SubSeq(s, 1, Len(s) - 1)) ELSE s

\* str.strip()
Strip(s) == RStrip(LStrip(s))

\* str.split(): the maximal runs of non-whitespace characters, in order
RECURSIVE SplitFrom(_, _)
SplitFrom(s, cur) ==
    IF s = <<>> THEN (IF cur = <<>> THEN <<>> ELSE <<cur>>)
    ELSE IF s[1] \in Whitespace
         THEN (IF cur = <<>> THEN <<>> ELSE <<cur>>) \o SplitFrom(Tail(s), <<>>)
         ELSE SplitFrom(Tail(s), Append(cur, s[1]))

Split(s) == SplitFrom(s, <<>>)

\* ' '.join(words)
RECURSIVE Join(_)
Join(ws) ==
    IF ws = <<>> THEN <<>>
    ELSE IF Len(ws) = 1 THEN ws[1]
    ELSE ws[1] \o <<" ">> \o Join(Tail(ws))

\* s.replace(c1 + c2, r): left to right, non-overlapping
RECURSIVE Replace2(_, _, _, _)
Replace2(s, c1, c2, r) ==
    IF Len(s) < 2 THEN s
    ELSE IF s[1] = c1 /\ s[2] = c2
         THEN <<r>> \o Replace2(SubSeq(s, 3, Len(s)), c1, c2, r)
         ELSE <<s[1]>> \o Replace2(Tail(s), c1, c2, r)

\* s.replace(c, r) for single characters
RECURSIVE Replace1(_, _, _)
Replace1(s, c, r) ==
    IF s = <<>> THEN <<>>
    ELSE <<IF s[1] = c THEN r ELSE s[1]>> \o Replace1(Tail(s), c, r)

\* the characters with a decimal digit value, by value: DecimalDigitsOf[v + 1]
\* holds the digits of every script that stand for v
DecimalDigitsOf == <<
    {
      "0", "U+0660", "۰", "߀", "U+0966", "০", "U+0A66", "૦", "U+0B66", "௦",
      "U+0C66", "೦", "U+0D66", "෦", "U+0E50", "໐", "U+0F20", "U+1040", "႐", "០",
      "U+1810", "U+1946", "᧐", "᪀", "᪐", "U+1B50", "᮰", "U+1C40", "U+1C50", "U+A620",
      "꣐", "U+A900", "꧐", "꧰", "U+AA50", "꯰", "U+FF10", "U+104A0", "U+10D30", "U+11066",
      "U+110F0", "U+11136", "U+111D0", "U+112F0", "U+11450", "U+114D0", "U+11650", "U+116C0", "U+11730", "U+118E0",
      "U+11950", "U+11C50", "U+11D50", "U+11DA0", "U+16A60", "U+16AC0", "U+16B50", "U+1D7CE", "U+1D7D8", "U+1D7E2",
      "U+1D7EC", "U+1D7F6", "U+1E140", "U+1E2F0", "U+1E950", "U+1FBF0" },
    {
      "1", "U+0661", "۱", "߁", "U+0967", "১", "U+0A67", "૧", "U+0B67", "௧",
      "U+0C67", "೧", "U+0D67", "෧", "U+0E51", "໑", "U+0F21", "U+1041", "႑", "១",
      "U+1811", "U+1947", "᧑", "᪁", "᪑", "U+1B51", "᮱", "U+1C41", "U+1C51", "U+A621",
      "꣑", "U+A901", "꧑", "꧱", "U+AA51", "꯱", "U+FF11", "U+104A1", "U+10D31", "U+11067",
      "U+110F1", "U+11137", "U+111D1", "U+112F1", "U+11451", "U+114D1", "U+11651", "U+116C1", "U+11731", "U+118E1",
      "U+11951", "U+11C51", "U+11D51", "U+11DA1", "U+16A61", "U+16AC1", "U+16B51", "U+1D7CF", "U+1D7D9", "U+1D7E3",
      "U+1D7ED", "U+1D7F7", "U+1E141", "U+1E2F1", "U+1E951", "U+1FBF1" },
    {
      "2", "U+0662", "۲", "߂", "U+0968", "২", "U+0A68", "૨", "U+0B68", "௨",
      "U+0C68", "೨", "U+0D68", "෨", "U+0E52", "໒", "U+0F22", "U+1042", "႒", "២",
      "U+1812", "U+1948", "᧒", "᪂", "᪒", "U+1B52", "᮲", "U+1C42", "U+1C52", "U+A622",
      "꣒", "U+A902", "꧒", "꧲", "U+AA52", "꯲", "U+FF12", "U+104A2", "U+10D32", "U+11068",
      "U+110F2", "U+11138", "U+111D2", "U+112F2", "U+11452", "U+114D2", "U+11652", "U+116C2", "U+11732", "U+118E2",
      "U+11952", "U+11C52", "U+11D52", "U+11DA2", "U+16A62", "U+16AC2", "U+16B52", "U+1D7D0", "U+1D7DA", "U+1D7E4",
      "U+1D7EE", "U+1D7F8", "U+1E142", "U+1E2F2", "U+1E952", "U+1FBF2" },
    {
      "3", "U+0663", "۳", "߃", "U+0969", "৩", "U+0A69", "૩", "U+0B69", "௩",
      "U+0C69", "೩", "U+0D69", "෩", "U+0E53", "໓", "U+0F23", "U+1043", "႓", "៣",
      "U+1813", "U+1949", "᧓", "᪃", "᪓", "U+1B53", "᮳", "U+1C43", "U+1C53", "U+A623",
      "꣓", "U+A903", "꧓", "꧳", "U+AA53", "꯳", "U+FF13", "U+104A3", "U+10D33", "U+11069",
      "U+110F3", "U+11139", "U+111D3", "U+112F3", "U+11453", "U+114D3", "U+11653", "U+116C3", "U+11733", "U+118E3",
      "U+11953", "U+11C53", "U+11D53", "U+11DA3", "U+16A63", "U+16AC3", "U+16B53", "U+1D7D1", "U+1D7DB", "U+1D7E5",
      "U+1D7EF", "U+1D7F9", "U+1E143", "U+1E2F3", "U+1E953", "U+1FBF3" },
    {
      "4", "U+0664", "۴", "߄", "U+096A", "৪", "U+0A6A", "૪", "U+0B6A", "௪",
      "U+0C6A", "೪", "U+0D6A", "෪", "U+0E54", "໔", "U+0F24", "U+1044", "႔", "៤",
      "U+1814", "U+194A", "᧔", "᪄", "᪔", "U+1B54", "᮴", "U+1C44", "U+1C54", "U+A624",
      "꣔", "U+A904", "꧔", "꧴", "U+AA54", "꯴", "U+FF14", "U+104A4", "U+10D34", "U+1106A",
      "U+110F4", "U+1113A", "U+111D4", "U+112F4", "U+11454", "U+114D4", "U+11654", "U+116C4", "U+11734", "U+118E4",
      "U+11954", "U+11C54", "U+11D54", "U+11DA4", "U+16A64", "U+16AC4", "U+16B54", "U+1D7D2", "U+1D7DC", "U+1D7E6",
      "U+1D7F0", "U+1D7FA", "U+1E144", "U+1E2F4", "U+1E954", "U+1FBF4" },
    {
      "5", "U+0665", "۵", "߅", "U+096B", "৫", "U+0A6B", "૫", "U+0B6B", "௫",
      "U+0C6B", "೫", "U+0D6B", "෫", "U+0E55", "໕", "U+0F25", "U+1045", "႕", "៥",
      "U+1815", "U+194B", "᧕", "᪅", "᪕", "U+1B55", "᮵", "U+1C45", "U+1C55", "U+A625",
      "꣕", "U+A905", "꧕", "꧵", "U+AA55", "꯵", "U+FF15", "U+104A5", "U+10D35", "U+1106B",
      "U+110F5", "U+1113B", "U+111D5", "U+112F5", "U+11455", "U+114D5", "U+11655", "U+116C5", "U+11735", "U+118E5",
      "U+11955", "U+11C55", "U+11D55", "U+11DA5", "U+16A65", "U+16AC5", "U+16B55", "U+1D7D3", "U+1D7DD", "U+1D7E7",
      "U+1D7F1", "U+1D7FB", "U+1E145", "U+1E2F5", "U+1E955", "U+1FBF5" },
    {
      "6", "U+0666", "۶", "߆", "U+096C", "৬", "U+0A6C", "૬", "U+0B6C", "௬",
      "U+0C6C", "೬", "U+0D6C", "෬", "U+0E56", "໖", "U+0F26", "U+1046", "႖", "៦",
      "U+1816", "U+194C", "᧖", "᪆", "᪖", "U+1B56", "᮶", "U+1C46", "U+1C56", "U+A626",
      "꣖", "U+A906", "꧖", "꧶", "U+AA56", "꯶", "U+FF16", "U+104A6", "U+10D36", "U+1106C",
      "U+110F6", "U+1113C", "U+111D6", "U+112F6", "U+11456", "U+114D6", "U+11656", "U+116C6", "U+11736", "U+118E6",
      "U+11956", "U+11C56", "U+11D56", "U+11DA6", "U+16A66", "U+16AC6", "U+16B56", "U+1D7D4", "U+1D7DE", "U+1D7E8",
      "U+1D7F2", "U+1D7FC", "U+1E146", "U+1E2F6", "U+1E956", "U+1FBF6" },
    {
      "7", "U+0667", "۷", "߇", "U+096D", "৭", "U+0A6D", "૭", "U+0B6D", "௭",
      "U+0C6D", "೭", "U+0D6D", "෭", "U+0E57", "໗", "U+0F27", "U+1047", "႗", "៧",
      "U+1817", "U+194D", "᧗", "᪇", "᪗", "U+1B57", "᮷", "U+1C47", "U+1C57", "U+A627",
      "꣗", "U+A907", "꧗", "꧷", "U+AA57", "꯷", "U+FF17", "U+104A7", "U+10D37", "U+1106D",
      "U+110F7", "U+1113D", "U+111D7", "U+112F7", "U+11457", "U+114D7", "U+11657", "U+116C7", "U+11737", "U+118E7",
      "U+11957", "U+11C57", "U+11D57", "U+11DA7", "U+16A67", "U+16AC7", "U+16B57", "U+1D7D5", "U+1D7DF", "U+1D7E9",
      "U+1D7F3", "U+1D7FD", "U+1E147", "U+1E2F7", "U+1E957", "U+1FBF7" },
    {
      "8", "U+0668", "۸", "߈", "U+096E", "৮", "U+0A6E", "૮", "U+0B6E", "௮",
      "U+0C6E", "೮", "U+0D6E", "෮", "U+0E58", "໘", "U+0F28", "U+1048", "႘", "៨",
      "U+1818", "U+194E", "᧘", "᪈", "᪘", "U+1B58", "᮸", "U+1C48", "U+1C58", "U+A628",
      "꣘", "U+A908", "꧘", "꧸", "U+AA58", "꯸", "U+FF18", "U+104A8", "U+10D38", "U+1106E",
      "U+110F8", "U+1113E", "U+111D8", "U+112F8", "U+11458", "U+114D8", "U+11658", "U+116C8", "U+11738", "U+118E8",
      "U+11958", "U+11C58", "U+11D58", "U+11DA8", "U+16A68", "U+16AC8", "U+16B58", "U+1D7D6", "U+1D7E0", "U+1D7EA",
      "U+1D7F4", "U+1D7FE", "U+1E148", "U+1E2F8", "U+1E958", "U+1FBF8" },
    {
      "9", "U+0669", "۹", "߉", "U+096F", "৯", "U+0A6F", "૯", "U+0B6F", "௯",
      "U+0C6F", "೯", "U+0D6F", "෯", "U+0E59", "໙", "U+0F29", "U+1049", "႙", "៩",
      "U+1819", "U+194F", "᧙", "᪉", "᪙", "U+1B59", "᮹", "U+1C49", "U+1C59", "U+A629",
      "꣙", "U+A909", "꧙", "꧹", "U+AA59", "꯹", "U+FF19", "U+104A9", "U+10D39", "U+1106F",
      "U+110F9", "U+1113F", "U+111D9", "U+112F9", "U+11459", "U+114D9", "U+11659", "U+116C9", "U+11739", "U+118E9",
      "U+11959", "U+11C59", "U+11D59", "U+11DA9", "U+16A69", "U+16AC9", "U+16B59", "U+1D7D7", "U+1D7E1", "U+1D7EB",
      "U+1D7F5", "U+1D7FF", "U+1E149", "U+1E2F9", "U+1E959", "U+1FBF9" }
>>

DecimalDigits == UNION {DecimalDigitsOf[v] : v \in 1..10}

\* the characters str.isdigit() is true of that have no decimal digit value
\* (superscripts, subscripts, circled digits): int() rejects them
OtherDigits == {
    "²", "³", "¹", "U+1369", "U+136A", "U+136B", "U+136C", "U+136D", "U+136E", "U+136F",
    "U+1370", "U+1371", "᧚", "U+2070", "U+2074", "U+2075", "U+2076", "U+2077", "U+2078", "U+2079",
    "₀", "₁", "₂", "₃", "₄", "₅", "₆", "₇", "₈", "₉",
    "U+2460", "U+2461", "U+2462", "U+2463", "U+2464", "U+2465", "U+2466", "U+2467", "U+2468", "U+2474",
    "U+2475", "U+2476", "U+2477", "U+2478", "U+2479", "U+247A", "U+247B", "U+247C", "⒈", "⒉",
    "⒊", "⒋", "⒌", "⒍", "⒎", "⒏", "⒐", "⓪", "⓵", "⓶",
    "⓷", "⓸", "⓹", "⓺", "⓻", "⓼", "⓽", "⓿", "U+2776", "U+2777",
    "U+2778", "U+2779", "U+277A", "U+277B", "U+277C", "U+277D", "U+277E", "➀", "➁", "➂",
    "➃", "➄", "➅", "➆", "➇", "➈", "➊", "➋", "➌", "➍",
    "➎", "➏", "➐", "➑", "➒", "U+10A40", "U+10A41", "U+10A42", "U+10A43", "U+10E60",
    "U+10E61", "U+10E62", "U+10E63", "U+10E64", "U+10E65", "U+10E66", "U+10E67", "U+10E68", "U+11052", "U+11053",
    "U+11054", "U+11055", "U+11056", "U+11057", "U+11058", "U+11059", "U+1105A", "U+1F100", "U+1F101", "U+1F102",
    "U+1F103", "U+1F104", "U+1F105", "U+1F106", "U+1F107", "U+1F108", "U+1F109", "U+1F10A"
}

Digits == DecimalDigits \cup OtherDigits

DigitValue(c) == (CHOOSE v \in 1..10 : c \in DecimalDigitsOf[v]) - 1

\* str.isdigit()
IsDigit(s) == s # <<>> /\ \A i \in 1..Len(s) : s[i] \in Digits

\* the value of a list of digit values, most significant first
RECURSIVE DecimalValue(_)
DecimalValue(ds) ==
    IF ds = <<>> THEN 0
    ELSE 10 * DecimalValue(SubSeq(ds, 1, Len(ds) - 1)) + ds[Len(ds)]

(***************************************************************************)
(* remove_greek_accents, and the str methods normalize_text uses.          *)
(***************************************************************************)
greek_accents(c) ==
    CASE c = "ά" -> "α"
      [] c = "έ" -> "ε"
      [] c = "ή" -> "η"
      [] c = "ί" -> "ι"
      [] c = "ό" -> "ο"
      [] c = "ύ" -> "υ"
      [] c = "ώ" -> "ω"
      [] c = "Ά" -> "α"
      [] c = "Έ" -> "ε"
      [] c = "Ή" -> "η"
      [] c = "Ί" -> "ι"
      [] c = "Ό" -> "ο"
      [] c = "Ύ" -> "υ"
      [] c = "Ώ" -> "ω"
      [] c = "ϊ" -> "ι"
      [] c = "ΐ" -> "ι"
      [] c = "ϋ" -> "υ"
      [] c = "ΰ" -> "υ"
      [] OTHER -> c
\* the replacements are character for character and no replacement's result
\* is another one's key, so their sequence is one pass over the characters
RECURSIVE remove_greek_accents(_)
remove_greek_accents(text) ==
    IF text = <<>> THEN <<>>
    ELSE <<greek_accents(text[1])>> \o remove_greek_accents(Tail(text))

\* str.lower(), character by character: every character lower() changes into
\* one other character, with the character it becomes. The capital sigma is
\* not in the table: its lower-case form depends on its neighbours
\* (FinalSigma); nor is the capital I with a dot, which becomes two characters
LowerPairs == {
    <<"A", "a">>, <<"B", "b">>, <<"C", "c">>, <<"D", "d">>,
    <<"E", "e">>, <<"F", "f">>, <<"G", "g">>, <<"H", "h">>,
    <<"I", "i">>, <<"J", "j">>, <<"K", "k">>, <<"L", "l">>,
    <<"M", "m">>, <<"N", "n">>, <<"O", "o">>, <<"P", "p">>,
    <<"Q", "q">>, <<"R", "r">>, <<"S", "s">>, <<"T", "t">>,
    <<"U", "u">>, <<"V", "v">>, <<"W", "w">>, <<"X", "x">>,
    <<"Y", "y">>, <<"Z", "z">>, <<"À", "à">>, <<"Á", "á">>,
    <<"Â", "â">>, <<"Ã", "ã">>, <<"Ä", "ä">>, <<"Å", "å">>,
    <<"Æ", "æ">>, <<"Ç", "ç">>, <<"È", "è">>, <<"É", "é">>,
    <<"Ê", "ê">>, <<"Ë", "ë">>, <<"Ì", "ì">>, <<"Í", "í">>,
    <<"Î", "î">>, <<"Ï", "ï">>, <<"Ð", "ð">>, <<"Ñ", "ñ">>,
    <<"Ò", "ò">>, <<"Ó", "ó">>, <<"Ô", "ô">>, <<"Õ", "õ">>,
    <<"Ö", "ö">>, <<"Ø", "ø">>, <<"Ù", "ù">>, <<"Ú", "ú">>,
    <<"Û", "û">>, <<"Ü", "ü">>, <<"Ý", "ý">>, <<"Þ", "þ">>,
    <<"U+0100", "U+0101">>, <<"U+0102", "U+0103">>, <<"U+0104", "U+0105">>, <<"U+0106", "U+0107">>,
    <<"U+0108", "U+0109">>, <<"U+010A", "U+010B">>, <<"U+010C", "U+010D">>, <<"U+010E", "U+010F">>,
    <<"U+0110", "U+0111">>, <<"U+0112", "U+0113">>, <<"U+0114", "U+0115">>, <<"U+0116", "U+0117">>,
    <<"U+0118", "U+0119">>, <<"U+011A", "U+011B">>, <<"U+011C", "U+011D">>, <<"U+011E", "U+011F">>,
    <<"U+0120", "U+0121">>, <<"U+0122", "U+0123">>, <<"U+0124", "U+0125">>, <<"U+0126", "U+0127">>,
    <<"U+0128", "U+0129">>, <<"U+012A", "U+012B">>, <<"U+012C", "U+012D">>, <<"U+012E", "U+012F">>,
    <<"U+0132", "U+0133">>, <<"U+0134", "U+0135">>, <<"U+0136", "U+0137">>, <<"U+0139", "U+013A">>,
    <<"U+013B", "U+013C">>, <<"U+013D", "U+013E">>, <<"U+013F", "U+0140">>, <<"U+0141", "U+0142">>,
    <<"U+0143", "U+0144">>, <<"U+0145", "U+0146">>, <<"U+0147", "U+0148">>, <<"U+014A", "U+014B">>,
    <<"U+014C", "U+014D">>, <<"U+014E", "U+014F">>, <<"U+0150", "U+0151">>, <<"U+0152", "U+0153">>,
    <<"U+0154", "U+0155">>, <<"U+0156", "U+0157">>, <<"U+0158", "U+0159">>, <<"U+015A", "U+015B">>,
    <<"U+015C", "U+015D">>, <<"U+015E", "U+015F">>, <<"U+0160", "U+0161">>, <<"U+0162", "U+0163">>,
    <<"U+0164", "U+0165">>, <<"U+0166", "U+0167">>, <<"U+0168", "U+0169">>, <<"U+016A", "U+016B">>,
    <<"U+016C", "U+016D">>, <<"U+016E", "U+016F">>, <<"U+0170", "U+0171">>, <<"U+0172", "U+0173">>,
    <<"U+0174", "U+0175">>, <<"U+0176", "U+0177">>, <<"U+0178", "ÿ">>, <<"U+0179", "U+017A">>,
    <<"U+017B", "U+017C">>, <<"U+017D", "U+017E">>, <<"Ɓ", "U+0253">>, <<"Ƃ", "ƃ">>,
    <<"Ƅ", "ƅ">>, <<"Ɔ", "U+0254">>, <<"Ƈ", "ƈ">>, <<"Ɖ", "U+0256">>,
    <<"Ɗ", "U+0257">>, <<"Ƌ", "ƌ">>, <<"Ǝ", "ǝ">>, <<"Ə", "U+0259">>,
    <<"Ɛ", "U+025B">>, <<"Ƒ", "ƒ">>, <<"Ɠ", "U+0260">>, <<"Ɣ", "U+0263">>,
    <<"Ɩ", "U+0269">>, <<"Ɨ", "U+0268">>, <<"Ƙ", "ƙ">>, <<"Ɯ", "U+026F">>,
    <<"Ɲ", "U+0272">>, <<"Ɵ", "U+0275">>, <<"Ơ", "ơ">>, <<"Ƣ", "ƣ">>,
    <<"Ƥ", "ƥ">>, <<"Ʀ", "ʀ">>, <<"Ƨ", "ƨ">>, <<"Ʃ", "ʃ">>,
    <<"Ƭ", "ƭ">>, <<"Ʈ", "ʈ">>, <<"Ư", "ư">>, <<"Ʊ", "ʊ">>,
    <<"Ʋ", "ʋ">>, <<"Ƴ", "ƴ">>, <<"Ƶ", "ƶ">>, <<"Ʒ", "ʒ">>,
    <<"Ƹ", "ƹ">>, <<"Ƽ", "ƽ">>, <<"Ǆ", "ǆ">>, <<"ǅ", "ǆ">>,
    <<"Ǉ", "ǉ">>, <<"ǈ", "ǉ">>, <<"Ǌ", "ǌ">>, <<"ǋ", "ǌ">>,
    <<"Ǎ", "ǎ">>, <<"Ǐ", "ǐ">>, <<"Ǒ", "ǒ">>, <<"Ǔ", "ǔ">>,
    <<"Ǖ", "ǖ">>, <<"Ǘ", "ǘ">>, <<"Ǚ", "ǚ">>, <<"Ǜ", "ǜ">>,
    <<"Ǟ", "ǟ">>, <<"Ǡ", "ǡ">>, <<"Ǣ", "ǣ">>, <<"Ǥ", "ǥ">>,
    <<"Ǧ", "ǧ">>, <<"Ǩ", "ǩ">>, <<"Ǫ", "ǫ">>, <<"Ǭ", "ǭ">>,
    <<"Ǯ", "ǯ">>, <<"Ǳ", "ǳ">>, <<"ǲ", "ǳ">>, <<"Ǵ", "ǵ">>,
    <<"Ƕ", "ƕ">>, <<"Ƿ", "ƿ">>, <<"Ǹ", "ǹ">>, <<"Ǻ", "ǻ">>,
    <<"Ǽ", "ǽ">>, <<"Ǿ", "ǿ">>, <<"U+0200", "U+0201">>, <<"U+0202", "U+0203">>,
    <<"U+0204", "U+0205">>, <<"U+0206", "U+0207">>, <<"U+0208", "U+0209">>, <<"U+020A", "U+020B">>,
    <<"U+020C", "U+020D">>, <<"U+020E", "U+020F">>, <<"U+0210", "U+0211">>, <<"U+0212", "U+0213">>,
    <<"U+0214", "U+0215">>, <<"U+0216", "U+0217">>, <<"U+0218", "U+0219">>, <<"U+021A", "U+021B">>,
    <<"U+021C", "U+021D">>, <<"U+021E", "U+021F">>, <<"U+0220", "ƞ">>, <<"U+0222", "U+0223">>,
    <<"U+0224", "U+0225">>, <<"U+0226", "U+0227">>, <<"U+0228", "U+0229">>, <<"U+022A", "U+022B">>,
    <<"U+022C", "U+022D">>, <<"U+022E", "U+022F">>, <<"U+0230", "U+0231">>, <<"U+0232", "U+0233">>,
    <<"U+023A", "U+2C65">>, <<"U+023B", "U+023C">>, <<"U+023D", "ƚ">>, <<"U+023E", "U+2C66">>,
    <<"U+0241", "U+0242">>, <<"U+0243", "ƀ">>, <<"U+0244", "ʉ">>, <<"U+0245", "ʌ">>,
    <<"U+0246", "U+0247">>, <<"U+0248", "U+0249">>, <<"U+024A", "U+024B">>, <<"U+024C", "U+024D">>,
    <<"U+024E", "U+024F">>, <<"U+0370", "U+0371">>, <<"U+0372", "U+0373">>, <<"U+0376", "U+0377">>,
    <<"U+037F", "ϳ">>, <<"Ά", "ά">>, <<"Έ", "έ">>, <<"Ή", "ή">>,
    <<"Ί", "ί">>, <<"Ό", "ό">>, <<"Ύ", "ύ">>, <<"Ώ", "ώ">>,
    <<"Α", "α">>, <<"Β", "β">>, <<"Γ", "γ">>, <<"Δ", "δ">>,
    <<"Ε", "ε">>, <<"Ζ", "ζ">>, <<"Η", "η">>, <<"Θ", "θ">>,
    <<"Ι", "ι">>, <<"Κ", "κ">>, <<"Λ", "λ">>, <<"Μ", "μ">>,
    <<"Ν", "ν">>, <<"Ξ", "ξ">>, <<"Ο", "ο">>, <<"Π", "π">>,
    <<"Ρ", "ρ">>, <<"Τ", "τ">>, <<"Υ", "υ">>, <<"Φ", "φ">>,
    <<"Χ", "χ">>, <<"Ψ", "ψ">>, <<"Ω", "ω">>, <<"Ϊ", "ϊ">>,
    <<"Ϋ", "ϋ">>, <<"Ϗ", "ϗ">>, <<"Ϙ", "ϙ">>, <<"Ϛ", "ϛ">>,
    <<"Ϝ", "ϝ">>, <<"Ϟ", "ϟ">>, <<"Ϡ", "ϡ">>, <<"Ϣ", "ϣ">>,
    <<"Ϥ", "ϥ">>, <<"Ϧ", "ϧ">>, <<"Ϩ", "ϩ">>, <<"Ϫ", "ϫ">>,
    <<"Ϭ", "ϭ">>, <<"Ϯ", "ϯ">>, <<"ϴ", "θ">>, <<"Ϸ", "ϸ">>,
    <<"Ϲ", "ϲ">>, <<"Ϻ", "ϻ">>, <<"Ͻ", "U+037B">>, <<"Ͼ", "U+037C">>,
    <<"Ͽ", "U+037D">>, <<"U+0400", "U+0450">>, <<"U+0401", "U+0451">>, <<"U+0402", "U+0452">>,
    <<"U+0403", "U+0453">>, <<"U+0404", "U+0454">>, <<"U+0405", "U+0455">>, <<"U+0406", "U+0456">>,
    <<"U+0407", "U+0457">>, <<"U+0408", "U+0458">>, <<"U+0409", "U+0459">>, <<"U+040A", "U+045A">>,
    <<"U+040B", "U+045B">>, <<"U+040C", "U+045C">>, <<"U+040D", "U+045D">>, <<"U+040E", "U+045E">>,
    <<"U+040F", "U+045F">>, <<"U+0410", "U+0430">>, <<"U+0411", "U+0431">>, <<"U+0412", "U+0432">>,
    <<"U+0413", "U+0433">>, <<"U+0414", "U+0434">>, <<"U+0415", "U+0435">>, <<"U+0416", "U+0436">>,
    <<"U+0417", "U+0437">>, <<"U+0418", "U+0438">>, <<"U+0419", "U+0439">>, <<"U+041A", "U+043A">>,
    <<"U+041B", "U+043B">>, <<"U+041C", "U+043C">>, <<"U+041D", "U+043D">>, <<"U+041E", "U+043E">>,
    <<"U+041F", "U+043F">>, <<"U+0420", "U+0440">>, <<"U+0421", "U+0441">>, <<"U+0422", "U+0442">>,
    <<"U+0423", "U+0443">>, <<"U+0424", "U+0444">>, <<"U+0425", "U+0445">>, <<"U+0426", "U+0446">>,
    <<"U+0427", "U+0447">>, <<"U+0428", "U+0448">>, <<"U+0429", "U+0449">>, <<"U+042A", "U+044A">>,
    <<"U+042B", "U+044B">>, <<"U+042C", "U+044C">>, <<"U+042D", "U+044D">>, <<"U+042E", "U+044E">>,
    <<"U+042F", "U+044F">>, <<"U+0460", "U+0461">>, <<"U+0462", "U+0463">>, <<"U+0464", "U+0465">>,
    <<"U+0466", "U+0467">>, <<"U+0468", "U+0469">>, <<"U+046A", "U+046B">>, <<"U+046C", "U+046D">>,
    <<"U+046E", "U+046F">>, <<"U+0470", "U+0471">>, <<"U+0472", "U+0473">>, <<"U+0474", "U+0475">>,
    <<"U+0476", "U+0477">>, <<"U+0478", "U+0479">>, <<"U+047A", "U+047B">>, <<"U+047C", "U+047D">>,
    <<"U+047E", "U+047F">>, <<"Ҁ", "ҁ">>, <<"Ҋ", "ҋ">>, <<"Ҍ", "ҍ">>,
    <<"Ҏ", "ҏ">>, <<"Ґ", "ґ">>, <<"Ғ", "ғ">>, <<"Ҕ", "ҕ">>,
    <<"Җ", "җ">>, <<"Ҙ", "ҙ">>, <<"Қ", "қ">>, <<"Ҝ", "ҝ">>,
    <<"Ҟ", "ҟ">>, <<"Ҡ", "ҡ">>, <<"Ң", "ң">>, <<"Ҥ", "ҥ">>,
    <<"Ҧ", "ҧ">>, <<"Ҩ", "ҩ">>, <<"Ҫ", "ҫ">>, <<"Ҭ", "ҭ">>,
    <<"Ү", "ү">>, <<"Ұ", "ұ">>, <<"Ҳ", "ҳ">>, <<"Ҵ", "ҵ">>,
    <<"Ҷ", "ҷ">>, <<"Ҹ", "ҹ">>, <<"Һ", "һ">>, <<"Ҽ", "ҽ">>,
    <<"Ҿ", "ҿ">>, <<"Ӏ", "ӏ">>, <<"Ӂ", "ӂ">>, <<"Ӄ", "ӄ">>,
    <<"Ӆ", "ӆ">>, <<"Ӈ", "ӈ">>, <<"Ӊ", "ӊ">>, <<"Ӌ", "ӌ">>,
    <<"Ӎ", "ӎ">>, <<"Ӑ", "ӑ">>, <<"Ӓ", "ӓ">>, <<"Ӕ", "ӕ">>,
    <<"Ӗ", "ӗ">>, <<"Ә", "ә">>, <<"Ӛ", "ӛ">>, <<"Ӝ", "ӝ">>,
    <<"Ӟ", "ӟ">>, <<"Ӡ", "ӡ">>, <<"Ӣ", "ӣ">>, <<"Ӥ", "ӥ">>,
    <<"Ӧ", "ӧ">>, <<"Ө", "ө">>, <<"Ӫ", "ӫ">>, <<"Ӭ", "ӭ">>,
    <<"Ӯ", "ӯ">>, <<"Ӱ", "ӱ">>, <<"Ӳ", "ӳ">>, <<"Ӵ", "ӵ">>,
    <<"Ӷ", "ӷ">>, <<"Ӹ", "ӹ">>, <<"Ӻ", "ӻ">>, <<"Ӽ", "ӽ">>,
    <<"Ӿ", "ӿ">>, <<"U+0500", "U+0501">>, <<"U+0502", "U+0503">>, <<"U+0504", "U+0505">>,
    <<"U+0506", "U+0507">>, <<"U+0508", "U+0509">>, <<"U+050A", "U+050B">>, <<"U+050C", "U+050D">>,
    <<"U+050E", "U+050F">>, <<"U+0510", "U+0511">>, <<"U+0512", "U+0513">>, <<"U+0514", "U+0515">>,
    <<"U+0516", "U+0517">>, <<"U+0518", "U+0519">>, <<"U+051A", "U+051B">>, <<"U+051C", "U+051D">>,
    <<"U+051E", "U+051F">>, <<"U+0520", "U+0521">>, <<"U+0522", "U+0523">>, <<"U+0524", "U+0525">>,
    <<"U+0526", "U+0527">>, <<"U+0528", "U+0529">>, <<"U+052A", "U+052B">>, <<"U+052C", "U+052D">>,
    <<"U+052E", "U+052F">>, <<"U+0531", "U+0561">>, <<"U+0532", "U+0562">>, <<"U+0533", "U+0563">>,
    <<"U+0534", "U+0564">>, <<"U+0535", "U+0565">>, <<"U+0536", "U+0566">>, <<"U+0537", "U+0567">>,
    <<"U+0538", "U+0568">>, <<"U+0539", "U+0569">>, <<"U+053A", "U+056A">>, <<"U+053B", "U+056B">>,
    <<"U+053C", "U+056C">>, <<"U+053D", "U+056D">>, <<"U+053E", "U+056E">>, <<"U+053F", "U+056F">>,
    <<"U+0540", "U+0570">>, <<"U+0541", "U+0571">>, <<"U+0542", "U+0572">>, <<"U+0543", "U+0573">>,
    <<"U+0544", "U+0574">>, <<"U+0545", "U+0575">>, <<"U+0546", "U+0576">>, <<"U+0547", "U+0577">>,
    <<"U+0548", "U+0578">>, <<"U+0549", "U+0579">>, <<"U+054A", "U+057A">>, <<"U+054B", "U+057B">>,
    <<"U+054C", "U+057C">>, <<"U+054D", "U+057D">>, <<"U+054E", "U+057E">>, <<"U+054F", "U+057F">>,
    <<"U+0550", "ր">>, <<"U+0551", "ց">>, <<"U+0552", "ւ">>, <<"U+0553", "փ">>,
    <<"U+0554", "ք">>, <<"U+0555", "օ">>, <<"U+0556", "ֆ">>, <<"Ⴀ", "U+2D00">>,
    <<"Ⴁ", "U+2D01">>, <<"Ⴂ", "U+2D02">>, <<"Ⴃ", "U+2D03">>, <<"Ⴄ", "U+2D04">>,
    <<"Ⴅ", "U+2D05">>, <<"Ⴆ", "U+2D06">>, <<"Ⴇ", "U+2D07">>, <<"Ⴈ", "U+2D08">>,
    <<"Ⴉ", "U+2D09">>, <<"Ⴊ", "U+2D0A">>, <<"Ⴋ", "U+2D0B">>, <<"Ⴌ", "U+2D0C">>,
    <<"Ⴍ", "U+2D0D">>, <<"Ⴎ", "U+2D0E">>, <<"Ⴏ", "U+2D0F">>, <<"Ⴐ", "U+2D10">>,
    <<"Ⴑ", "U+2D11">>, <<"Ⴒ", "U+2D12">>, <<"Ⴓ", "U+2D13">>, <<"Ⴔ", "U+2D14">>,
    <<"Ⴕ", "U+2D15">>, <<"Ⴖ", "U+2D16">>, <<"Ⴗ", "U+2D17">>, <<"Ⴘ", "U+2D18">>,
    <<"Ⴙ", "U+2D19">>, <<"Ⴚ", "U+2D1A">>, <<"Ⴛ", "U+2D1B">>, <<"Ⴜ", "U+2D1C">>,
    <<"Ⴝ", "U+2D1D">>, <<"Ⴞ", "U+2D1E">>, <<"Ⴟ", "U+2D1F">>, <<"Ⴠ", "U+2D20">>,
    <<"Ⴡ", "U+2D21">>, <<"Ⴢ", "U+2D22">>, <<"Ⴣ", "U+2D23">>, <<"Ⴤ", "U+2D24">>,
    <<"Ⴥ", "U+2D25">>, <<"Ⴧ", "U+2D27">>, <<"Ⴭ", "U+2D2D">>, <<"Ꭰ", "U+AB70">>,
    <<"Ꭱ", "U+AB71">>, <<"Ꭲ", "U+AB72">>, <<"Ꭳ", "U+AB73">>, <<"Ꭴ", "U+AB74">>,
    <<"Ꭵ", "U+AB75">>, <<"Ꭶ", "U+AB76">>, <<"Ꭷ", "U+AB77">>, <<"Ꭸ", "U+AB78">>,
    <<"Ꭹ", "U+AB79">>, <<"Ꭺ", "U+AB7A">>, <<"Ꭻ", "U+AB7B">>, <<"Ꭼ", "U+AB7C">>,
    <<"Ꭽ", "U+AB7D">>, <<"Ꭾ", "U+AB7E">>, <<"Ꭿ", "U+AB7F">>, <<"Ꮀ", "ꮀ">>,
    <<"Ꮁ", "ꮁ">>, <<"Ꮂ", "ꮂ">>, <<"Ꮃ", "ꮃ">>, <<"Ꮄ", "ꮄ">>,
    <<"Ꮅ", "ꮅ">>, <<"Ꮆ", "ꮆ">>, <<"Ꮇ", "ꮇ">>, <<"Ꮈ", "ꮈ">>,
    <<"Ꮉ", "ꮉ">>, <<"Ꮊ", "ꮊ">>, <<"Ꮋ", "ꮋ">>, <<"Ꮌ", "ꮌ">>,
    <<"Ꮍ", "ꮍ">>, <<"Ꮎ", "ꮎ">>, <<"Ꮏ", "ꮏ">>, <<"Ꮐ", "ꮐ">>,
    <<"Ꮑ", "ꮑ">>, <<"Ꮒ", "ꮒ">>, <<"Ꮓ", "ꮓ">>, <<"Ꮔ", "ꮔ">>,
    <<"Ꮕ", "ꮕ">>, <<"Ꮖ", "ꮖ">>, <<"Ꮗ", "ꮗ">>, <<"Ꮘ", "ꮘ">>,
    <<"Ꮙ", "ꮙ">>, <<"Ꮚ", "ꮚ">>, <<"Ꮛ", "ꮛ">>, <<"Ꮜ", "ꮜ">>,
    <<"Ꮝ", "ꮝ">>, <<"Ꮞ", "ꮞ">>, <<"Ꮟ", "ꮟ">>, <<"Ꮠ", "ꮠ">>,
    <<"Ꮡ", "ꮡ">>, <<"Ꮢ", "ꮢ">>, <<"Ꮣ", "ꮣ">>, <<"Ꮤ", "ꮤ">>,
    <<"Ꮥ", "ꮥ">>, <<"Ꮦ", "ꮦ">>, <<"Ꮧ", "ꮧ">>, <<"Ꮨ", "ꮨ">>,
    <<"Ꮩ", "ꮩ">>, <<"Ꮪ", "ꮪ">>, <<"Ꮫ", "ꮫ">>, <<"Ꮬ", "ꮬ">>,
    <<"Ꮭ", "ꮭ">>, <<"Ꮮ", "ꮮ">>, <<"Ꮯ", "ꮯ">>, <<"Ꮰ", "ꮰ">>,
    <<"Ꮱ", "ꮱ">>, <<"Ꮲ", "ꮲ">>, <<"Ꮳ", "ꮳ">>, <<"Ꮴ", "ꮴ">>,
    <<"Ꮵ", "ꮵ">>, <<"Ꮶ", "ꮶ">>, <<"Ꮷ", "ꮷ">>, <<"Ꮸ", "ꮸ">>,
    <<"Ꮹ", "ꮹ">>, <<"Ꮺ", "ꮺ">>, <<"Ꮻ", "ꮻ">>, <<"Ꮼ", "ꮼ">>,
    <<"Ꮽ", "ꮽ">>, <<"Ꮾ", "ꮾ">>, <<"Ꮿ", "ꮿ">>, <<"Ᏸ", "ᏸ">>,
    <<"Ᏹ", "ᏹ">>, <<"Ᏺ", "ᏺ">>, <<"Ᏻ", "ᏻ">>, <<"Ᏼ", "ᏼ">>,
    <<"Ᏽ", "ᏽ">>, <<"Ა", "ა">>, <<"Ბ", "ბ">>, <<"Გ", "გ">>,
    <<"Დ", "დ">>, <<"Ე", "ე">>, <<"Ვ", "ვ">>, <<"Ზ", "ზ">>,
    <<"Თ", "თ">>, <<"Ი", "ი">>, <<"Კ", "კ">>, <<"Ლ", "ლ">>,
    <<"Მ", "მ">>, <<"Ნ", "ნ">>, <<"Ო", "ო">>, <<"Პ", "პ">>,
    <<"Ჟ", "ჟ">>, <<"Რ", "რ">>, <<"Ს", "ს">>, <<"Ტ", "ტ">>,
    <<"Უ", "უ">>, <<"Ფ", "ფ">>, <<"Ქ", "ქ">>, <<"Ღ", "ღ">>,
    <<"Ყ", "ყ">>, <<"Შ", "შ">>, <<"Ჩ", "ჩ">>, <<"Ც", "ც">>,
    <<"Ძ", "ძ">>, <<"Წ", "წ">>, <<"Ჭ", "ჭ">>, <<"Ხ", "ხ">>,
    <<"Ჯ", "ჯ">>, <<"Ჰ", "ჰ">>, <<"Ჱ", "ჱ">>, <<"Ჲ", "ჲ">>,
    <<"Ჳ", "ჳ">>, <<"Ჴ", "ჴ">>, <<"Ჵ", "ჵ">>, <<"Ჶ", "ჶ">>,
    <<"Ჷ", "ჷ">>, <<"Ჸ", "ჸ">>, <<"Ჹ", "ჹ">>, <<"Ჺ", "ჺ">>,
    <<"Ჽ", "ჽ">>, <<"Ჾ", "ჾ">>, <<"Ჿ", "ჿ">>, <<"U+1E00", "U+1E01">>,
    <<"U+1E02", "U+1E03">>, <<"U+1E04", "U+1E05">>, <<"U+1E06", "U+1E07">>, <<"U+1E08", "U+1E09">>,
    <<"U+1E0A", "U+1E0B">>, <<"U+1E0C", "U+1E0D">>, <<"U+1E0E", "U+1E0F">>, <<"U+1E10", "U+1E11">>,
    <<"U+1E12", "U+1E13">>, <<"U+1E14", "U+1E15">>, <<"U+1E16", "U+1E17">>, <<"U+1E18", "U+1E19">>,
    <<"U+1E1A", "U+1E1B">>, <<"U+1E1C", "U+1E1D">>, <<"U+1E1E", "U+1E1F">>, <<"U+1E20", "U+1E21">>,
    <<"U+1E22", "U+1E23">>, <<"U+1E24", "U+1E25">>, <<"U+1E26", "U+1E27">>, <<"U+1E28", "U+1E29">>,
    <<"U+1E2A", "U+1E2B">>, <<"U+1E2C", "U+1E2D">>, <<"U+1E2E", "U+1E2F">>, <<"U+1E30", "U+1E31">>,
    <<"U+1E32", "U+1E33">>, <<"U+1E34", "U+1E35">>, <<"U+1E36", "U+1E37">>, <<"U+1E38", "U+1E39">>,
    <<"U+1E3A", "U+1E3B">>, <<"U+1E3C", "U+1E3D">>, <<"U+1E3E", "U+1E3F">>, <<"U+1E40", "U+1E41">>,
    <<"U+1E42", "U+1E43">>, <<"U+1E44", "U+1E45">>, <<"U+1E46", "U+1E47">>, <<"U+1E48", "U+1E49">>,
    <<"U+1E4A", "U+1E4B">>, <<"U+1E4C", "U+1E4D">>, <<"U+1E4E", "U+1E4F">>, <<"U+1E50", "U+1E51">>,
    <<"U+1E52", "U+1E53">>, <<"U+1E54", "U+1E55">>, <<"U+1E56", "U+1E57">>, <<"U+1E58", "U+1E59">>,
    <<"U+1E5A", "U+1E5B">>, <<"U+1E5C", "U+1E5D">>, <<"U+1E5E", "U+1E5F">>, <<"U+1E60", "U+1E61">>,
    <<"U+1E62", "U+1E63">>, <<"U+1E64", "U+1E65">>, <<"U+1E66", "U+1E67">>, <<"U+1E68", "U+1E69">>,
    <<"U+1E6A", "U+1E6B">>, <<"U+1E6C", "U+1E6D">>, <<"U+1E6E", "U+1E6F">>, <<"U+1E70", "U+1E71">>,
    <<"U+1E72", "U+1E73">>, <<"U+1E74", "U+1E75">>, <<"U+1E76", "U+1E77">>, <<"U+1E78", "U+1E79">>,
    <<"U+1E7A", "U+1E7B">>, <<"U+1E7C", "U+1E7D">>, <<"U+1E7E", "U+1E7F">>, <<"Ẁ", "ẁ">>,
    <<"Ẃ", "ẃ">>, <<"Ẅ", "ẅ">>, <<"Ẇ", "ẇ">>, <<"Ẉ", "ẉ">>,
    <<"Ẋ", "ẋ">>, <<"Ẍ", "ẍ">>, <<"Ẏ", "ẏ">>, <<"Ẑ", "ẑ">>,
    <<"Ẓ", "ẓ">>, <<"Ẕ", "ẕ">>, <<"ẞ", "ß">>, <<"Ạ", "ạ">>,
    <<"Ả", "ả">>, <<"Ấ", "ấ">>, <<"Ầ", "ầ">>, <<"Ẩ", "ẩ">>,
    <<"Ẫ", "ẫ">>, <<"Ậ", "ậ">>, <<"Ắ", "ắ">>, <<"Ằ", "ằ">>,
    <<"Ẳ", "ẳ">>, <<"Ẵ", "ẵ">>, <<"Ặ", "ặ">>, <<"Ẹ", "ẹ">>,
    <<"Ẻ", "ẻ">>, <<"Ẽ", "ẽ">>, <<"Ế", "ế">>, <<"Ề", "ề">>,
    <<"Ể", "ể">>, <<"Ễ", "ễ">>, <<"Ệ", "ệ">>, <<"Ỉ", "ỉ">>,
    <<"Ị", "ị">>, <<"Ọ", "ọ">>, <<"Ỏ", "ỏ">>, <<"Ố", "ố">>,
    <<"Ồ", "ồ">>, <<"Ổ", "ổ">>, <<"Ỗ", "ỗ">>, <<"Ộ", "ộ">>,
    <<"Ớ", "ớ">>, <<"Ờ", "ờ">>, <<"Ở", "ở">>, <<"Ỡ", "ỡ">>,
    <<"Ợ", "ợ">>, <<"Ụ", "ụ">>, <<"Ủ", "ủ">>, <<"Ứ", "ứ">>,
    <<"Ừ", "ừ">>, <<"Ử", "ử">>, <<"Ữ", "ữ">>, <<"Ự", "ự">>,
    <<"Ỳ", "ỳ">>, <<"Ỵ", "ỵ">>, <<"Ỷ", "ỷ">>, <<"Ỹ", "ỹ">>,
    <<"Ỻ", "ỻ">>, <<"Ỽ", "ỽ">>, <<"Ỿ", "ỿ">>, <<"U+1F08", "U+1F00">>,
    <<"U+1F09", "U+1F01">>, <<"U+1F0A", "U+1F02">>, <<"U+1F0B", "U+1F03">>, <<"U+1F0C", "U+1F04">>,
    <<"U+1F0D", "U+1F05">>, <<"U+1F0E", "U+1F06">>, <<"U+1F0F", "U+1F07">>, <<"U+1F18", "U+1F10">>,
    <<"U+1F19", "U+1F11">>, <<"U+1F1A", "U+1F12">>, <<"U+1F1B", "U+1F13">>, <<"U+1F1C", "U+1F14">>,
    <<"U+1F1D", "U+1F15">>, <<"U+1F28", "U+1F20">>, <<"U+1F29", "U+1F21">>, <<"U+1F2A", "U+1F22">>,
    <<"U+1F2B", "U+1F23">>, <<"U+1F2C", "U+1F24">>, <<"U+1F2D", "U+1F25">>, <<"U+1F2E", "U+1F26">>,
    <<"U+1F2F", "U+1F27">>, <<"U+1F38", "U+1F30">>, <<"U+1F39", "U+1F31">>, <<"U+1F3A", "U+1F32">>,
    <<"U+1F3B", "U+1F33">>, <<"U+1F3C", "U+1F34">>, <<"U+1F3D", "U+1F35">>, <<"U+1F3E", "U+1F36">>,
    <<"U+1F3F", "U+1F37">>, <<"U+1F48", "U+1F40">>, <<"U+1F49", "U+1F41">>, <<"U+1F4A", "U+1F42">>,
    <<"U+1F4B", "U+1F43">>, <<"U+1F4C", "U+1F44">>, <<"U+1F4D", "U+1F45">>, <<"U+1F59", "U+1F51">>,
    <<"U+1F5B", "U+1F53">>, <<"U+1F5D", "U+1F55">>, <<"U+1F5F", "U+1F57">>, <<"U+1F68", "U+1F60">>,
    <<"U+1F69", "U+1F61">>, <<"U+1F6A", "U+1F62">>, <<"U+1F6B", "U+1F63">>, <<"U+1F6C", "U+1F64">>,
    <<"U+1F6D", "U+1F65">>, <<"U+1F6E", "U+1F66">>, <<"U+1F6F", "U+1F67">>, <<"ᾈ", "ᾀ">>,
    <<"ᾉ", "ᾁ">>, <<"ᾊ", "ᾂ">>, <<"ᾋ", "ᾃ">>, <<"ᾌ", "ᾄ">>,
    <<"ᾍ", "ᾅ">>, <<"ᾎ", "ᾆ">>, <<"ᾏ", "ᾇ">>, <<"ᾘ", "ᾐ">>,
    <<"ᾙ", "ᾑ">>, <<"ᾚ", "ᾒ">>, <<"ᾛ", "ᾓ">>, <<"ᾜ", "ᾔ">>,
    <<"ᾝ", "ᾕ">>, <<"ᾞ", "ᾖ">>, <<"ᾟ", "ᾗ">>, <<"ᾨ", "ᾠ">>,
    <<"ᾩ", "ᾡ">>, <<"ᾪ", "ᾢ">>, <<"ᾫ", "ᾣ">>, <<"ᾬ", "ᾤ">>,
    <<"ᾭ", "ᾥ">>, <<"ᾮ", "ᾦ">>, <<"ᾯ", "ᾧ">>, <<"Ᾰ", "ᾰ">>,
    <<"Ᾱ", "ᾱ">>, <<"Ὰ", "U+1F70">>, <<"Ά", "U+1F71">>, <<"ᾼ", "ᾳ">>,
    <<"Ὲ", "U+1F72">>, <<"Έ", "U+1F73">>, <<"Ὴ", "U+1F74">>, <<"Ή", "U+1F75">>,
    <<"ῌ", "ῃ">>, <<"Ῐ", "ῐ">>, <<"Ῑ", "ῑ">>, <<"Ὶ", "U+1F76">>,
    <<"Ί", "U+1F77">>, <<"Ῠ", "ῠ">>, <<"Ῡ", "ῡ">>, <<"Ὺ", "U+1F7A">>,
    <<"Ύ", "U+1F7B">>, <<"Ῥ", "ῥ">>, <<"Ὸ", "U+1F78">>, <<"Ό", "U+1F79">>,
    <<"Ὼ", "U+1F7C">>, <<"Ώ", "U+1F7D">>, <<"ῼ", "ῳ">>, <<"U+2126", "ω">>,
    <<"U+212A", "k">>, <<"U+212B", "å">>, <<"U+2132", "U+214E">>, <<"U+2160", "U+2170">>,
    <<"U+2161", "U+2171">>, <<"U+2162", "U+2172">>, <<"U+2163", "U+2173">>, <<"U+2164", "U+2174">>,
    <<"U+2165", "U+2175">>, <<"U+2166", "U+2176">>, <<"U+2167", "U+2177">>, <<"U+2168", "U+2178">>,
    <<"U+2169", "U+2179">>, <<"U+216A", "U+217A">>, <<"U+216B", "U+217B">>, <<"U+216C", "U+217C">>,
    <<"U+216D", "U+217D">>, <<"U+216E", "U+217E">>, <<"U+216F", "U+217F">>, <<"Ↄ", "ↄ">>,
    <<"Ⓐ", "ⓐ">>, <<"Ⓑ", "ⓑ">>, <<"Ⓒ", "ⓒ">>, <<"Ⓓ", "ⓓ">>,
    <<"Ⓔ", "ⓔ">>, <<"Ⓕ", "ⓕ">>, <<"Ⓖ", "ⓖ">>, <<"Ⓗ", "ⓗ">>,
    <<"Ⓘ", "ⓘ">>, <<"Ⓙ", "ⓙ">>, <<"Ⓚ", "ⓚ">>, <<"Ⓛ", "ⓛ">>,
    <<"Ⓜ", "ⓜ">>, <<"Ⓝ", "ⓝ">>, <<"Ⓞ", "ⓞ">>, <<"Ⓟ", "ⓟ">>,
    <<"Ⓠ", "ⓠ">>, <<"Ⓡ", "ⓡ">>, <<"Ⓢ", "ⓢ">>, <<"Ⓣ", "ⓣ">>,
    <<"Ⓤ", "ⓤ">>, <<"Ⓥ", "ⓥ">>, <<"Ⓦ", "ⓦ">>, <<"Ⓧ", "ⓧ">>,
    <<"Ⓨ", "ⓨ">>, <<"Ⓩ", "ⓩ">>, <<"U+2C00", "U+2C30">>, <<"U+2C01", "U+2C31">>,
    <<"U+2C02", "U+2C32">>, <<"U+2C03", "U+2C33">>, <<"U+2C04", "U+2C34">>, <<"U+2C05", "U+2C35">>,
    <<"U+2C06", "U+2C36">>, <<"U+2C07", "U+2C37">>, <<"U+2C08", "U+2C38">>, <<"U+2C09", "U+2C39">>,
    <<"U+2C0A", "U+2C3A">>, <<"U+2C0B", "U+2C3B">>, <<"U+2C0C", "U+2C3C">>, <<"U+2C0D", "U+2C3D">>,
    <<"U+2C0E", "U+2C3E">>, <<"U+2C0F", "U+2C3F">>, <<"U+2C10", "U+2C40">>, <<"U+2C11", "U+2C41">>,
    <<"U+2C12", "U+2C42">>, <<"U+2C13", "U+2C43">>, <<"U+2C14", "U+2C44">>, <<"U+2C15", "U+2C45">>,
    <<"U+2C16", "U+2C46">>, <<"U+2C17", "U+2C47">>, <<"U+2C18", "U+2C48">>, <<"U+2C19", "U+2C49">>,
    <<"U+2C1A", "U+2C4A">>, <<"U+2C1B", "U+2C4B">>, <<"U+2C1C", "U+2C4C">>, <<"U+2C1D", "U+2C4D">>,
    <<"U+2C1E", "U+2C4E">>, <<"U+2C1F", "U+2C4F">>, <<"U+2C20", "U+2C50">>, <<"U+2C21", "U+2C51">>,
    <<"U+2C22", "U+2C52">>, <<"U+2C23", "U+2C53">>, <<"U+2C24", "U+2C54">>, <<"U+2C25", "U+2C55">>,
    <<"U+2C26", "U+2C56">>, <<"U+2C27", "U+2C57">>, <<"U+2C28", "U+2C58">>, <<"U+2C29", "U+2C59">>,
    <<"U+2C2A", "U+2C5A">>, <<"U+2C2B", "U+2C5B">>, <<"U+2C2C", "U+2C5C">>, <<"U+2C2D", "U+2C5D">>,
    <<"U+2C2E", "U+2C5E">>, <<"U+2C2F", "U+2C5F">>, <<"U+2C60", "U+2C61">>, <<"U+2C62", "U+026B">>,
    <<"U+2C63", "U+1D7D">>, <<"U+2C64", "U+027D">>, <<"U+2C67", "U+2C68">>, <<"U+2C69", "U+2C6A">>,
    <<"U+2C6B", "U+2C6C">>, <<"U+2C6D", "U+0251">>, <<"U+2C6E", "U+0271">>, <<"U+2C6F", "U+0250">>,
    <<"U+2C70", "U+0252">>, <<"U+2C72", "U+2C73">>, <<"U+2C75", "U+2C76">>, <<"U+2C7E", "U+023F">>,
    <<"U+2C7F", "U+0240">>, <<"Ⲁ", "ⲁ">>, <<"Ⲃ", "ⲃ">>, <<"Ⲅ", "ⲅ">>,
    <<"Ⲇ", "ⲇ">>, <<"Ⲉ", "ⲉ">>, <<"Ⲋ", "ⲋ">>, <<"Ⲍ", "ⲍ">>,
    <<"Ⲏ", "ⲏ">>, <<"Ⲑ", "ⲑ">>, <<"Ⲓ", "ⲓ">>, <<"Ⲕ", "ⲕ">>,
    <<"Ⲗ", "ⲗ">>, <<"Ⲙ", "ⲙ">>, <<"Ⲛ", "ⲛ">>, <<"Ⲝ", "ⲝ">>,
    <<"Ⲟ", "ⲟ">>, <<"Ⲡ", "ⲡ">>, <<"Ⲣ", "ⲣ">>, <<"Ⲥ", "ⲥ">>,
    <<"Ⲧ", "ⲧ">>, <<"Ⲩ", "ⲩ">>, <<"Ⲫ", "ⲫ">>, <<"Ⲭ", "ⲭ">>,
    <<"Ⲯ", "ⲯ">>, <<"Ⲱ", "ⲱ">>, <<"Ⲳ", "ⲳ">>, <<"Ⲵ", "ⲵ">>,
    <<"Ⲷ", "ⲷ">>, <<"Ⲹ", "ⲹ">>, <<"Ⲻ", "ⲻ">>, <<"Ⲽ", "ⲽ">>,
    <<"Ⲿ", "ⲿ">>, <<"Ⳁ", "ⳁ">>, <<"Ⳃ", "ⳃ">>, <<"Ⳅ", "ⳅ">>,
    <<"Ⳇ", "ⳇ">>, <<"Ⳉ", "ⳉ">>, <<"Ⳋ", "ⳋ">>, <<"Ⳍ", "ⳍ">>,
    <<"Ⳏ", "ⳏ">>, <<"Ⳑ", "ⳑ">>, <<"Ⳓ", "ⳓ">>, <<"Ⳕ", "ⳕ">>,
    <<"Ⳗ", "ⳗ">>, <<"Ⳙ", "ⳙ">>, <<"Ⳛ", "ⳛ">>, <<"Ⳝ", "ⳝ">>,
    <<"Ⳟ", "ⳟ">>, <<"Ⳡ", "ⳡ">>, <<"Ⳣ", "ⳣ">>, <<"Ⳬ", "ⳬ">>,
    <<"Ⳮ", "ⳮ">>, <<"Ⳳ", "ⳳ">>, <<"U+A640", "U+A641">>, <<"U+A642", "U+A643">>,
    <<"U+A644", "U+A645">>, <<"U+A646", "U+A647">>, <<"U+A648", "U+A649">>, <<"U+A64A", "U+A64B">>,
    <<"U+A64C", "U+A64D">>, <<"U+A64E", "U+A64F">>, <<"U+A650", "U+A651">>, <<"U+A652", "U+A653">>,
    <<"U+A654", "U+A655">>, <<"U+A656", "U+A657">>, <<"U+A658", "U+A659">>, <<"U+A65A", "U+A65B">>,
    <<"U+A65C", "U+A65D">>, <<"U+A65E", "U+A65F">>, <<"U+A660", "U+A661">>, <<"U+A662", "U+A663">>,
    <<"U+A664", "U+A665">>, <<"U+A666", "U+A667">>, <<"U+A668", "U+A669">>, <<"U+A66A", "U+A66B">>,
    <<"U+A66C", "U+A66D">>, <<"Ꚁ", "ꚁ">>, <<"Ꚃ", "ꚃ">>, <<"Ꚅ", "ꚅ">>,
    <<"Ꚇ", "ꚇ">>, <<"Ꚉ", "ꚉ">>, <<"Ꚋ", "ꚋ">>, <<"Ꚍ", "ꚍ">>,
    <<"Ꚏ", "ꚏ">>, <<"Ꚑ", "ꚑ">>, <<"Ꚓ", "ꚓ">>, <<"Ꚕ", "ꚕ">>,
    <<"Ꚗ", "ꚗ">>, <<"Ꚙ", "ꚙ">>, <<"Ꚛ", "ꚛ">>, <<"U+A722", "U+A723">>,
    <<"U+A724", "U+A725">>, <<"U+A726", "U+A727">>, <<"U+A728", "U+A729">>, <<"U+A72A", "U+A72B">>,
    <<"U+A72C", "U+A72D">>, <<"U+A72E", "U+A72F">>, <<"U+A732", "U+A733">>, <<"U+A734", "U+A735">>,
    <<"U+A736", "U+A737">>, <<"U+A738", "U+A739">>, <<"U+A73A", "U+A73B">>, <<"U+A73C", "U+A73D">>,
    <<"U+A73E", "U+A73F">>, <<"U+A740", "U+A741">>, <<"U+A742", "U+A743">>, <<"U+A744", "U+A745">>,
    <<"U+A746", "U+A747">>, <<"U+A748", "U+A749">>, <<"U+A74A", "U+A74B">>, <<"U+A74C", "U+A74D">>,
    <<"U+A74E", "U+A74F">>, <<"U+A750", "U+A751">>, <<"U+A752", "U+A753">>, <<"U+A754", "U+A755">>,
    <<"U+A756", "U+A757">>, <<"U+A758", "U+A759">>, <<"U+A75A", "U+A75B">>, <<"U+A75C", "U+A75D">>,
    <<"U+A75E", "U+A75F">>, <<"U+A760", "U+A761">>, <<"U+A762", "U+A763">>, <<"U+A764", "U+A765">>,
    <<"U+A766", "U+A767">>, <<"U+A768", "U+A769">>, <<"U+A76A", "U+A76B">>, <<"U+A76C", "U+A76D">>,
    <<"U+A76E", "U+A76F">>, <<"U+A779", "U+A77A">>, <<"U+A77B", "U+A77C">>, <<"U+A77D", "U+1D79">>,
    <<"U+A77E", "U+A77F">>, <<"Ꞁ", "ꞁ">>, <<"Ꞃ", "ꞃ">>, <<"Ꞅ", "ꞅ">>,
    <<"Ꞇ", "ꞇ">>, <<"Ꞌ", "ꞌ">>, <<"Ɥ", "U+0265">>, <<"Ꞑ", "ꞑ">>,
    <<"Ꞓ", "ꞓ">>, <<"Ꞗ", "ꞗ">>, <<"Ꞙ", "ꞙ">>, <<"Ꞛ", "ꞛ">>,
    <<"Ꞝ", "ꞝ">>, <<"Ꞟ", "ꞟ">>, <<"Ꞡ", "ꞡ">>, <<"Ꞣ", "ꞣ">>,
    <<"Ꞥ", "ꞥ">>, <<"Ꞧ", "ꞧ">>, <<"Ꞩ", "ꞩ">>, <<"Ɦ", "U+0266">>,
    <<"Ɜ", "U+025C">>, <<"Ɡ", "U+0261">>, <<"Ɬ", "U+026C">>, <<"Ɪ", "U+026A">>,
    <<"Ʞ", "ʞ">>, <<"Ʇ", "ʇ">>, <<"Ʝ", "ʝ">>, <<"Ꭓ", "U+AB53">>,
    <<"Ꞵ", "ꞵ">>, <<"Ꞷ", "ꞷ">>, <<"Ꞹ", "ꞹ">>, <<"Ꞻ", "ꞻ">>,
    <<"Ꞽ", "ꞽ">>, <<"Ꞿ", "ꞿ">>, <<"Ꟁ", "ꟁ">>, <<"Ꟃ", "ꟃ">>,
    <<"Ꞔ", "ꞔ">>, <<"Ʂ", "ʂ">>, <<"Ᶎ", "ᶎ">>, <<"Ꟈ", "ꟈ">>,
    <<"Ꟊ", "ꟊ">>, <<"Ꟑ", "ꟑ">>, <<"Ꟗ", "ꟗ">>, <<"Ꟙ", "ꟙ">>,
    <<"Ꟶ", "ꟶ">>, <<"U+FF21", "U+FF41">>, <<"U+FF22", "U+FF42">>, <<"U+FF23", "U+FF43">>,
    <<"U+FF24", "U+FF44">>, <<"U+FF25", "U+FF45">>, <<"U+FF26", "U+FF46">>, <<"U+FF27", "U+FF47">>,
    <<"U+FF28", "U+FF48">>, <<"U+FF29", "U+FF49">>, <<"U+FF2A", "U+FF4A">>, <<"U+FF2B", "U+FF4B">>,
    <<"U+FF2C", "U+FF4C">>, <<"U+FF2D", "U+FF4D">>, <<"U+FF2E", "U+FF4E">>, <<"U+FF2F", "U+FF4F">>,
    <<"U+FF30", "U+FF50">>, <<"U+FF31", "U+FF51">>, <<"U+FF32", "U+FF52">>, <<"U+FF33", "U+FF53">>,
    <<"U+FF34", "U+FF54">>, <<"U+FF35", "U+FF55">>, <<"U+FF36", "U+FF56">>, <<"U+FF37", "U+FF57">>,
    <<"U+FF38", "U+FF58">>, <<"U+FF39", "U+FF59">>, <<"U+FF3A", "U+FF5A">>, <<"U+10400", "U+10428">>,
    <<"U+10401", "U+10429">>, <<"U+10402", "U+1042A">>, <<"U+10403", "U+1042B">>, <<"U+10404", "U+1042C">>,
    <<"U+10405", "U+1042D">>, <<"U+10406", "U+1042E">>, <<"U+10407", "U+1042F">>, <<"U+10408", "U+10430">>,
    <<"U+10409", "U+10431">>, <<"U+1040A", "U+10432">>, <<"U+1040B", "U+10433">>, <<"U+1040C", "U+10434">>,
    <<"U+1040D", "U+10435">>, <<"U+1040E", "U+10436">>, <<"U+1040F", "U+10437">>, <<"U+10410", "U+10438">>,
    <<"U+10411", "U+10439">>, <<"U+10412", "U+1043A">>, <<"U+10413", "U+1043B">>, <<"U+10414", "U+1043C">>,
    <<"U+10415", "U+1043D">>, <<"U+10416", "U+1043E">>, <<"U+10417", "U+1043F">>, <<"U+10418", "U+10440">>,
    <<"U+10419", "U+10441">>, <<"U+1041A", "U+10442">>, <<"U+1041B", "U+10443">>, <<"U+1041C", "U+10444">>,
    <<"U+1041D", "U+10445">>, <<"U+1041E", "U+10446">>, <<"U+1041F", "U+10447">>, <<"U+10420", "U+10448">>,
    <<"U+10421", "U+10449">>, <<"U+10422", "U+1044A">>, <<"U+10423", "U+1044B">>, <<"U+10424", "U+1044C">>,
    <<"U+10425", "U+1044D">>, <<"U+10426", "U+1044E">>, <<"U+10427", "U+1044F">>, <<"U+104B0", "U+104D8">>,
    <<"U+104B1", "U+104D9">>, <<"U+104B2", "U+104DA">>, <<"U+104B3", "U+104DB">>, <<"U+104B4", "U+104DC">>,
    <<"U+104B5", "U+104DD">>, <<"U+104B6", "U+104DE">>, <<"U+104B7", "U+104DF">>, <<"U+104B8", "U+104E0">>,
    <<"U+104B9", "U+104E1">>, <<"U+104BA", "U+104E2">>, <<"U+104BB", "U+104E3">>, <<"U+104BC", "U+104E4">>,
    <<"U+104BD", "U+104E5">>, <<"U+104BE", "U+104E6">>, <<"U+104BF", "U+104E7">>, <<"U+104C0", "U+104E8">>,
    <<"U+104C1", "U+104E9">>, <<"U+104C2", "U+104EA">>, <<"U+104C3", "U+104EB">>, <<"U+104C4", "U+104EC">>,
    <<"U+104C5", "U+104ED">>, <<"U+104C6", "U+104EE">>, <<"U+104C7", "U+104EF">>, <<"U+104C8", "U+104F0">>,
    <<"U+104C9", "U+104F1">>, <<"U+104CA", "U+104F2">>, <<"U+104CB", "U+104F3">>, <<"U+104CC", "U+104F4">>,
    <<"U+104CD", "U+104F5">>, <<"U+104CE", "U+104F6">>, <<"U+104CF", "U+104F7">>, <<"U+104D0", "U+104F8">>,
    <<"U+104D1", "U+104F9">>, <<"U+104D2", "U+104FA">>, <<"U+104D3", "U+104FB">>, <<"U+10570", "U+10597">>,
    <<"U+10571", "U+10598">>, <<"U+10572", "U+10599">>, <<"U+10573", "U+1059A">>, <<"U+10574", "U+1059B">>,
    <<"U+10575", "U+1059C">>, <<"U+10576", "U+1059D">>, <<"U+10577", "U+1059E">>, <<"U+10578", "U+1059F">>,
    <<"U+10579", "U+105A0">>, <<"U+1057A", "U+105A1">>, <<"U+1057C", "U+105A3">>, <<"U+1057D", "U+105A4">>,
    <<"U+1057E", "U+105A5">>, <<"U+1057F", "U+105A6">>, <<"U+10580", "U+105A7">>, <<"U+10581", "U+105A8">>,
    <<"U+10582", "U+105A9">>, <<"U+10583", "U+105AA">>, <<"U+10584", "U+105AB">>, <<"U+10585", "U+105AC">>,
    <<"U+10586", "U+105AD">>, <<"U+10587", "U+105AE">>, <<"U+10588", "U+105AF">>, <<"U+10589", "U+105B0">>,
    <<"U+1058A", "U+105B1">>, <<"U+1058C", "U+105B3">>, <<"U+1058D", "U+105B4">>, <<"U+1058E", "U+105B5">>,
    <<"U+1058F", "U+105B6">>, <<"U+10590", "U+105B7">>, <<"U+10591", "U+105B8">>, <<"U+10592", "U+105B9">>,
    <<"U+10594", "U+105BB">>, <<"U+10595", "U+105BC">>, <<"U+10C80", "U+10CC0">>, <<"U+10C81", "U+10CC1">>,
    <<"U+10C82", "U+10CC2">>, <<"U+10C83", "U+10CC3">>, <<"U+10C84", "U+10CC4">>, <<"U+10C85", "U+10CC5">>,
    <<"U+10C86", "U+10CC6">>, <<"U+10C87", "U+10CC7">>, <<"U+10C88", "U+10CC8">>, <<"U+10C89", "U+10CC9">>,
    <<"U+10C8A", "U+10CCA">>, <<"U+10C8B", "U+10CCB">>, <<"U+10C8C", "U+10CCC">>, <<"U+10C8D", "U+10CCD">>,
    <<"U+10C8E", "U+10CCE">>, <<"U+10C8F", "U+10CCF">>, <<"U+10C90", "U+10CD0">>, <<"U+10C91", "U+10CD1">>,
    <<"U+10C92", "U+10CD2">>, <<"U+10C93", "U+10CD3">>, <<"U+10C94", "U+10CD4">>, <<"U+10C95", "U+10CD5">>,
    <<"U+10C96", "U+10CD6">>, <<"U+10C97", "U+10CD7">>, <<"U+10C98", "U+10CD8">>, <<"U+10C99", "U+10CD9">>,
    <<"U+10C9A", "U+10CDA">>, <<"U+10C9B", "U+10CDB">>, <<"U+10C9C", "U+10CDC">>, <<"U+10C9D", "U+10CDD">>,
    <<"U+10C9E", "U+10CDE">>, <<"U+10C9F", "U+10CDF">>, <<"U+10CA0", "U+10CE0">>, <<"U+10CA1", "U+10CE1">>,
    <<"U+10CA2", "U+10CE2">>, <<"U+10CA3", "U+10CE3">>, <<"U+10CA4", "U+10CE4">>, <<"U+10CA5", "U+10CE5">>,
    <<"U+10CA6", "U+10CE6">>, <<"U+10CA7", "U+10CE7">>, <<"U+10CA8", "U+10CE8">>, <<"U+10CA9", "U+10CE9">>,
    <<"U+10CAA", "U+10CEA">>, <<"U+10CAB", "U+10CEB">>, <<"U+10CAC", "U+10CEC">>, <<"U+10CAD", "U+10CED">>,
    <<"U+10CAE", "U+10CEE">>, <<"U+10CAF", "U+10CEF">>, <<"U+10CB0", "U+10CF0">>, <<"U+10CB1", "U+10CF1">>,
    <<"U+10CB2", "U+10CF2">>, <<"U+118A0", "U+118C0">>, <<"U+118A1", "U+118C1">>, <<"U+118A2", "U+118C2">>,
    <<"U+118A3", "U+118C3">>, <<"U+118A4", "U+118C4">>, <<"U+118A5", "U+118C5">>, <<"U+118A6", "U+118C6">>,
    <<"U+118A7", "U+118C7">>, <<"U+118A8", "U+118C8">>, <<"U+118A9", "U+118C9">>, <<"U+118AA", "U+118CA">>,
    <<"U+118AB", "U+118CB">>, <<"U+118AC", "U+118CC">>, <<"U+118AD", "U+118CD">>, <<"U+118AE", "U+118CE">>,
    <<"U+118AF", "U+118CF">>, <<"U+118B0", "U+118D0">>, <<"U+118B1", "U+118D1">>, <<"U+118B2", "U+118D2">>,
    <<"U+118B3", "U+118D3">>, <<"U+118B4", "U+118D4">>, <<"U+118B5", "U+118D5">>, <<"U+118B6", "U+118D6">>,
    <<"U+118B7", "U+118D7">>, <<"U+118B8", "U+118D8">>, <<"U+118B9", "U+118D9">>, <<"U+118BA", "U+118DA">>,
    <<"U+118BB", "U+118DB">>, <<"U+118BC", "U+118DC">>, <<"U+118BD", "U+118DD">>, <<"U+118BE", "U+118DE">>,
    <<"U+118BF", "U+118DF">>, <<"U+16E40", "U+16E60">>, <<"U+16E41", "U+16E61">>, <<"U+16E42", "U+16E62">>,
    <<"U+16E43", "U+16E63">>, <<"U+16E44", "U+16E64">>, <<"U+16E45", "U+16E65">>, <<"U+16E46", "U+16E66">>,
    <<"U+16E47", "U+16E67">>, <<"U+16E48", "U+16E68">>, <<"U+16E49", "U+16E69">>, <<"U+16E4A", "U+16E6A">>,
    <<"U+16E4B", "U+16E6B">>, <<"U+16E4C", "U+16E6C">>, <<"U+16E4D", "U+16E6D">>, <<"U+16E4E", "U+16E6E">>,
    <<"U+16E4F", "U+16E6F">>, <<"U+16E50", "U+16E70">>, <<"U+16E51", "U+16E71">>, <<"U+16E52", "U+16E72">>,
    <<"U+16E53", "U+16E73">>, <<"U+16E54", "U+16E74">>, <<"U+16E55", "U+16E75">>, <<"U+16E56", "U+16E76">>,
    <<"U+16E57", "U+16E77">>, <<"U+16E58", "U+16E78">>, <<"U+16E59", "U+16E79">>, <<"U+16E5A", "U+16E7A">>,
    <<"U+16E5B", "U+16E7B">>, <<"U+16E5C", "U+16E7C">>, <<"U+16E5D", "U+16E7D">>, <<"U+16E5E", "U+16E7E">>,
    <<"U+16E5F", "U+16E7F">>, <<"U+1E900", "U+1E922">>, <<"U+1E901", "U+1E923">>, <<"U+1E902", "U+1E924">>,
    <<"U+1E903", "U+1E925">>, <<"U+1E904", "U+1E926">>, <<"U+1E905", "U+1E927">>, <<"U+1E906", "U+1E928">>,
    <<"U+1E907", "U+1E929">>, <<"U+1E908", "U+1E92A">>, <<"U+1E909", "U+1E92B">>, <<"U+1E90A", "U+1E92C">>,
    <<"U+1E90B", "U+1E92D">>, <<"U+1E90C", "U+1E92E">>, <<"U+1E90D", "U+1E92F">>, <<"U+1E90E", "U+1E930">>,
    <<"U+1E90F", "U+1E931">>, <<"U+1E910", "U+1E932">>, <<"U+1E911", "U+1E933">>, <<"U+1E912", "U+1E934">>,
    <<"U+1E913", "U+1E935">>, <<"U+1E914", "U+1E936">>, <<"U+1E915", "U+1E937">>, <<"U+1E916", "U+1E938">>,
    <<"U+1E917", "U+1E939">>, <<"U+1E918", "U+1E93A">>, <<"U+1E919", "U+1E93B">>, <<"U+1E91A", "U+1E93C">>,
    <<"U+1E91B", "U+1E93D">>, <<"U+1E91C", "U+1E93E">>, <<"U+1E91D", "U+1E93F">>, <<"U+1E91E", "U+1E940">>,
    <<"U+1E91F", "U+1E941">>, <<"U+1E920", "U+1E942">>, <<"U+1E921", "U+1E943">>
}

UpperChars == {p[1] : p \in LowerPairs}

\* c.lower() for a character other than the capital sigma: a str, of two
\* characters for the capital I with a dot
LowerChar(c) ==
    IF c = "U+0130" THEN <<"i", "U+0307">>
    ELSE IF c \in UpperChars THEN <<(CHOOSE p \in LowerPairs : p[1] = c)[2]>>
    ELSE <<c>>

\* the cased characters that are not case-ignorable
Cased == {
    "A", "B", "C", "D", "E", "F", "G", "H", "I", "J",
    "K", "L", "M", "N", "O", "P", "Q", "R", "S", "T",
    "U", "V", "W", "X", "Y", "Z", "a", "b", "c", "d",
    "e", "f", "g", "h", "i", "j", "k", "l", "m", "n",
    "o", "p", "q", "r", "s", "t", "u", "v", "w", "x",
    "y", "z", "ª", "µ", "º", "À", "Á", "Â", "Ã", "Ä",
    "Å", "Æ", "Ç", "È", "É", "Ê", "Ë", "Ì", "Í", "Î",
    "Ï", "Ð", "Ñ", "Ò", "Ó", "Ô", "Õ", "Ö", "Ø", "Ù",
    "Ú", "Û", "Ü", "Ý", "Þ", "ß", "à", "á", "â", "ã",
    "ä", "å", "æ", "ç", "è", "é", "ê", "ë", "ì", "í",
    "î", "ï", "ð", "ñ", "ò", "ó", "ô", "õ", "ö", "ø",
    "ù", "ú", "û", "ü", "ý", "þ", "ÿ", "U+0100", "U+0101", "U+0102",
    "U+0103", "U+0104", "U+0105", "U+0106", "U+0107", "U+0108", "U+0109", "U+010A", "U+010B", "U+010C",
    "U+010D", "U+010E", "U+010F", "U+0110", "U+0111", "U+0112", "U+0113", "U+0114", "U+0115", "U+0116",
    "U+0117", "U+0118", "U+0119", "U+011A", "U+011B", "U+011C", "U+011D", "U+011E", "U+011F", "U+0120",
    "U+0121", "U+0122", "U+0123", "U+0124", "U+0125", "U+0126", "U+0127", "U+0128", "U+0129", "U+012A",
    "U+012B", "U+012C", "U+012D", "U+012E", "U+012F", "U+0130", "U+0131", "U+0132", "U+0133", "U+0134",
    "U+0135", "U+0136", "U+0137", "U+0138", "U+0139", "U+013A", "U+013B", "U+013C", "U+013D", "U+013E",
    "U+013F", "U+0140", "U+0141", "U+0142", "U+0143", "U+0144", "U+0145", "U+0146", "U+0147", "U+0148",
    "U+0149", "U+014A", "U+014B", "U+014C", "U+014D", "U+014E", "U+014F", "U+0150", "U+0151", "U+0152",
    "U+0153", "U+0154", "U+0155", "U+0156", "U+0157", "U+0158", "U+0159", "U+015A", "U+015B", "U+015C",
    "U+015D", "U+015E", "U+015F", "U+0160", "U+0161", "U+0162", "U+0163", "U+0164", "U+0165", "U+0166",
    "U+0167", "U+0168", "U+0169", "U+016A", "U+016B", "U+016C", "U+016D", "U+016E", "U+016F", "U+0170",
    "U+0171", "U+0172", "U+0173", "U+0174", "U+0175", "U+0176", "U+0177", "U+0178", "U+0179", "U+017A",
    "U+017B", "U+017C", "U+017D", "U+017E", "U+017F", "ƀ", "Ɓ", "Ƃ", "ƃ", "Ƅ",
    "ƅ", "Ɔ", "Ƈ", "ƈ", "Ɖ", "Ɗ", "Ƌ", "ƌ", "ƍ", "Ǝ",
    "Ə", "Ɛ", "Ƒ", "ƒ", "Ɠ", "Ɣ", "ƕ", "Ɩ", "Ɨ", "Ƙ",
    "ƙ", "ƚ", "ƛ", "Ɯ", "Ɲ", "ƞ", "Ɵ", "Ơ", "ơ", "Ƣ",
    "ƣ", "Ƥ", "ƥ", "Ʀ", "Ƨ", "ƨ", "Ʃ", "ƪ", "ƫ", "Ƭ",
    "ƭ", "Ʈ", "Ư", "ư", "Ʊ", "Ʋ", "Ƴ", "ƴ", "Ƶ", "ƶ",
    "Ʒ", "Ƹ", "ƹ", "ƺ", "Ƽ", "ƽ", "ƾ", "ƿ", "Ǆ", "ǅ",
    "ǆ", "Ǉ", "ǈ", "ǉ", "Ǌ", "ǋ", "ǌ", "Ǎ", "ǎ", "Ǐ",
    "ǐ", "Ǒ", "ǒ", "Ǔ", "ǔ", "Ǖ", "ǖ", "Ǘ", "ǘ", "Ǚ",
    "ǚ", "Ǜ", "ǜ", "ǝ", "Ǟ", "ǟ", "Ǡ", "ǡ", "Ǣ", "ǣ",
    "Ǥ", "ǥ", "Ǧ", "ǧ", "Ǩ", "ǩ", "Ǫ", "ǫ", "Ǭ", "ǭ",
    "Ǯ", "ǯ", "ǰ", "Ǳ", "ǲ", "ǳ", "Ǵ", "ǵ", "Ƕ", "Ƿ",
    "Ǹ", "ǹ", "Ǻ", "ǻ", "Ǽ", "ǽ", "Ǿ", "ǿ", "U+0200", "U+0201",
    "U+0202", "U+0203", "U+0204", "U+0205", "U+0206", "U+0207", "U+0208", "U+0209", "U+020A", "U+020B",
    "U+020C", "U+020D", "U+020E", "U+020F", "U+0210", "U+0211", "U+0212", "U+0213", "U+0214", "U+0215",
    "U+0216", "U+0217", "U+0218", "U+0219", "U+021A", "U+021B", "U+021C", "U+021D", "U+021E", "U+021F",
    "U+0220", "U+0221", "U+0222", "U+0223", "U+0224", "U+0225", "U+0226", "U+0227", "U+0228", "U+0229",
    "U+022A", "U+022B", "U+022C", "U+022D", "U+022E", "U+022F", "U+0230", "U+0231", "U+0232", "U+0233",
    "U+0234", "U+0235", "U+0236", "U+0237", "U+0238", "U+0239", "U+023A", "U+023B", "U+023C", "U+023D",
    "U+023E", "U+023F", "U+0240", "U+0241", "U+0242", "U+0243", "U+0244", "U+0245", "U+0246", "U+0247",
    "U+0248", "U+0249", "U+024A", "U+024B", "U+024C", "U+024D", "U+024E", "U+024F", "U+0250", "U+0251",
    "U+0252", "U+0253", "U+0254", "U+0255", "U+0256", "U+0257", "U+0258", "U+0259", "U+025A", "U+025B",
    "U+025C", "U+025D", "U+025E", "U+025F", "U+0260", "U+0261", "U+0262", "U+0263", "U+0264", "U+0265",
    "U+0266", "U+0267", "U+0268", "U+0269", "U+026A", "U+026B", "U+026C", "U+026D", "U+026E", "U+026F",
    "U+0270", "U+0271", "U+0272", "U+0273", "U+0274", "U+0275", "U+0276", "U+0277", "U+0278", "U+0279",
    "U+027A", "U+027B", "U+027C", "U+027D", "U+027E", "U+027F", "ʀ", "ʁ", "ʂ", "ʃ",
    "ʄ", "ʅ", "ʆ", "ʇ", "ʈ", "ʉ", "ʊ", "ʋ", "ʌ", "ʍ",
    "ʎ", "ʏ", "ʐ", "ʑ", "ʒ", "ʓ", "ʕ", "ʖ", "ʗ", "ʘ",
    "ʙ", "ʚ", "ʛ", "ʜ", "ʝ", "ʞ", "ʟ", "ʠ", "ʡ", "ʢ",
    "ʣ", "ʤ", "ʥ", "ʦ", "ʧ", "ʨ", "ʩ", "ʪ", "ʫ", "ʬ",
    "ʭ", "ʮ", "ʯ", "U+0370", "U+0371", "U+0372", "U+0373", "U+0376", "U+0377", "U+037B",
    "U+037C", "U+037D", "U+037F", "Ά", "Έ", "Ή", "Ί", "Ό", "Ύ", "Ώ",
    "ΐ", "Α", "Β", "Γ", "Δ", "Ε", "Ζ", "Η", "Θ", "Ι",
    "Κ", "Λ", "Μ", "Ν", "Ξ", "Ο", "Π", "Ρ", "Σ", "Τ",
    "Υ", "Φ", "Χ", "Ψ", "Ω", "Ϊ", "Ϋ", "ά", "έ", "ή",
    "ί", "ΰ", "α", "β", "γ", "δ", "ε", "ζ", "η", "θ",
    "ι", "κ", "λ", "μ", "ν", "ξ", "ο", "π", "ρ", "ς",
    "σ", "τ", "υ", "φ", "χ", "ψ", "ω", "ϊ", "ϋ", "ό",
    "ύ", "ώ", "Ϗ", "ϐ", "ϑ", "ϒ", "ϓ", "ϔ", "ϕ", "ϖ",
    "ϗ", "Ϙ", "ϙ", "Ϛ", "ϛ", "Ϝ", "ϝ", "Ϟ", "ϟ", "Ϡ",
    "ϡ", "Ϣ", "ϣ", "Ϥ", "ϥ", "Ϧ", "ϧ", "Ϩ", "ϩ", "Ϫ",
    "ϫ", "Ϭ", "ϭ", "Ϯ", "ϯ", "ϰ", "ϱ", "ϲ", "ϳ", "ϴ",
    "ϵ", "Ϸ", "ϸ", "Ϲ", "Ϻ", "ϻ", "ϼ", "Ͻ", "Ͼ", "Ͽ",
    "U+0400", "U+0401", "U+0402", "U+0403", "U+0404", "U+0405", "U+0406", "U+0407", "U+0408", "U+0409",
    "U+040A", "U+040B", "U+040C", "U+040D", "U+040E", "U+040F", "U+0410", "U+0411", "U+0412", "U+0413",
    "U+0414", "U+0415", "U+0416", "U+0417", "U+0418", "U+0419", "U+041A", "U+041B", "U+041C", "U+041D",
    "U+041E", "U+041F", "U+0420", "U+0421", "U+0422", "U+0423", "U+0424", "U+0425", "U+0426", "U+0427",
    "U+0428", "U+0429", "U+042A", "U+042B", "U+042C", "U+042D", "U+042E", "U+042F", "U+0430", "U+0431",
    "U+0432", "U+0433", "U+0434", "U+0435", "U+0436", "U+0437", "U+0438", "U+0439", "U+043A", "U+043B",
    "U+043C", "U+043D", "U+043E", "U+043F", "U+0440", "U+0441", "U+0442", "U+0443", "U+0444", "U+0445",
    "U+0446", "U+0447", "U+0448", "U+0449", "U+044A", "U+044B", "U+044C", "U+044D", "U+044E", "U+044F",
    "U+0450", "U+0451", "U+0452", "U+0453", "U+0454", "U+0455", "U+0456", "U+0457", "U+0458", "U+0459",
    "U+045A", "U+045B", "U+045C", "U+045D", "U+045E", "U+045F", "U+0460", "U+0461", "U+0462", "U+0463",
    "U+0464", "U+0465", "U+0466", "U+0467", "U+0468", "U+0469", "U+046A", "U+046B", "U+046C", "U+046D",
    "U+046E", "U+046F", "U+0470", "U+0471", "U+0472", "U+0473", "U+0474", "U+0475", "U+0476", "U+0477",
    "U+0478", "U+0479", "U+047A", "U+047B", "U+047C", "U+047D", "U+047E", "U+047F", "Ҁ", "ҁ",
    "Ҋ", "ҋ", "Ҍ", "ҍ", "Ҏ", "ҏ", "Ґ", "ґ", "Ғ", "ғ",
    "Ҕ", "ҕ", "Җ", "җ", "Ҙ", "ҙ", "Қ", "қ", "Ҝ", "ҝ",
    "Ҟ", "ҟ", "Ҡ", "ҡ", "Ң", "ң", "Ҥ", "ҥ", "Ҧ", "ҧ",
    "Ҩ", "ҩ", "Ҫ", "ҫ", "Ҭ", "ҭ", "Ү", "ү", "Ұ", "ұ",
    "Ҳ", "ҳ", "Ҵ", "ҵ", "Ҷ", "ҷ", "Ҹ", "ҹ", "Һ", "һ",
    "Ҽ", "ҽ", "Ҿ", "ҿ", "Ӏ", "Ӂ", "ӂ", "Ӄ", "ӄ", "Ӆ",
    "ӆ", "Ӈ", "ӈ", "Ӊ", "ӊ", "Ӌ", "ӌ", "Ӎ", "ӎ", "ӏ",
    "Ӑ", "ӑ", "Ӓ", "ӓ", "Ӕ", "ӕ", "Ӗ", "ӗ", "Ә", "ә",
    "Ӛ", "ӛ", "Ӝ", "ӝ", "Ӟ", "ӟ", "Ӡ", "ӡ", "Ӣ", "ӣ",
    "Ӥ", "ӥ", "Ӧ", "ӧ", "Ө", "ө", "Ӫ", "ӫ", "Ӭ", "ӭ",
    "Ӯ", "ӯ", "Ӱ", "ӱ", "Ӳ", "ӳ", "Ӵ", "ӵ", "Ӷ", "ӷ",
    "Ӹ", "ӹ", "Ӻ", "ӻ", "Ӽ", "ӽ", "Ӿ", "ӿ", "U+0500", "U+0501",
    "U+0502", "U+0503", "U+0504", "U+0505", "U+0506", "U+0507", "U+0508", "U+0509", "U+050A", "U+050B",
    "U+050C", "U+050D", "U+050E", "U+050F", "U+0510", "U+0511", "U+0512", "U+0513", "U+0514", "U+0515",
    "U+0516", "U+0517", "U+0518", "U+0519", "U+051A", "U+051B", "U+051C", "U+051D", "U+051E", "U+051F",
    "U+0520", "U+0521", "U+0522", "U+0523", "U+0524", "U+0525", "U+0526", "U+0527", "U+0528", "U+0529",
    "U+052A", "U+052B", "U+052C", "U+052D", "U+052E", "U+052F", "U+0531", "U+0532", "U+0533", "U+0534",
    "U+0535", "U+0536", "U+0537", "U+0538", "U+0539", "U+053A", "U+053B", "U+053C", "U+053D", "U+053E",
    "U+053F", "U+0540", "U+0541", "U+0542", "U+0543", "U+0544", "U+0545", "U+0546", "U+0547", "U+0548",
    "U+0549", "U+054A", "U+054B", "U+054C", "U+054D", "U+054E", "U+054F", "U+0550", "U+0551", "U+0552",
    "U+0553", "U+0554", "U+0555", "U+0556", "U+0560", "U+0561", "U+0562", "U+0563", "U+0564", "U+0565",
    "U+0566", "U+0567", "U+0568", "U+0569", "U+056A", "U+056B", "U+056C", "U+056D", "U+056E", "U+056F",
    "U+0570", "U+0571", "U+0572", "U+0573", "U+0574", "U+0575", "U+0576", "U+0577", "U+0578", "U+0579",
    "U+057A", "U+057B", "U+057C", "U+057D", "U+057E", "U+057F", "ր", "ց", "ւ", "փ",
    "ք", "օ", "ֆ", "և", "ֈ", "Ⴀ", "Ⴁ", "Ⴂ", "Ⴃ", "Ⴄ",
    "Ⴅ", "Ⴆ", "Ⴇ", "Ⴈ", "Ⴉ", "Ⴊ", "Ⴋ", "Ⴌ", "Ⴍ", "Ⴎ",
    "Ⴏ", "Ⴐ", "Ⴑ", "Ⴒ", "Ⴓ", "Ⴔ", "Ⴕ", "Ⴖ", "Ⴗ", "Ⴘ",
    "Ⴙ", "Ⴚ", "Ⴛ", "Ⴜ", "Ⴝ", "Ⴞ", "Ⴟ", "Ⴠ", "Ⴡ", "Ⴢ",
    "Ⴣ", "Ⴤ", "Ⴥ", "Ⴧ", "Ⴭ", "ა", "ბ", "გ", "დ", "ე",
    "ვ", "ზ", "თ", "ი", "კ", "ლ", "მ", "ნ", "ო", "პ",
    "ჟ", "რ", "ს", "ტ", "უ", "ფ", "ქ", "ღ", "ყ", "შ",
    "ჩ", "ც", "ძ", "წ", "ჭ", "ხ", "ჯ", "ჰ", "ჱ", "ჲ",
    "ჳ", "ჴ", "ჵ", "ჶ", "ჷ", "ჸ", "ჹ", "ჺ", "ჽ", "ჾ",
    "ჿ", "Ꭰ", "Ꭱ", "Ꭲ", "Ꭳ", "Ꭴ", "Ꭵ", "Ꭶ", "Ꭷ", "Ꭸ",
    "Ꭹ", "Ꭺ", "Ꭻ", "Ꭼ", "Ꭽ", "Ꭾ", "Ꭿ", "Ꮀ", "Ꮁ", "Ꮂ",
    "Ꮃ", "Ꮄ", "Ꮅ", "Ꮆ", "Ꮇ", "Ꮈ", "Ꮉ", "Ꮊ", "Ꮋ", "Ꮌ",
    "Ꮍ", "Ꮎ", "Ꮏ", "Ꮐ", "Ꮑ", "Ꮒ", "Ꮓ", "Ꮔ", "Ꮕ", "Ꮖ",
    "Ꮗ", "Ꮘ", "Ꮙ", "Ꮚ", "Ꮛ", "Ꮜ", "Ꮝ", "Ꮞ", "Ꮟ", "Ꮠ",
    "Ꮡ", "Ꮢ", "Ꮣ", "Ꮤ", "Ꮥ", "Ꮦ", "Ꮧ", "Ꮨ", "Ꮩ", "Ꮪ",
    "Ꮫ", "Ꮬ", "Ꮭ", "Ꮮ", "Ꮯ", "Ꮰ", "Ꮱ", "Ꮲ", "Ꮳ", "Ꮴ",
    "Ꮵ", "Ꮶ", "Ꮷ", "Ꮸ", "Ꮹ", "Ꮺ", "Ꮻ", "Ꮼ", "Ꮽ", "Ꮾ",
    "Ꮿ", "Ᏸ", "Ᏹ", "Ᏺ", "Ᏻ", "Ᏼ", "Ᏽ", "ᏸ", "ᏹ", "ᏺ",
    "ᏻ", "ᏼ", "ᏽ", "ᲀ", "ᲁ", "ᲂ", "ᲃ", "ᲄ", "ᲅ", "ᲆ",
    "ᲇ", "ᲈ", "Ა", "Ბ", "Გ", "Დ", "Ე", "Ვ", "Ზ", "Თ",
    "Ი", "Კ", "Ლ", "Მ", "Ნ", "Ო", "Პ", "Ჟ", "Რ", "Ს",
    "Ტ", "Უ", "Ფ", "Ქ", "Ღ", "Ყ", "Შ", "Ჩ", "Ც", "Ძ",
    "Წ", "Ჭ", "Ხ", "Ჯ", "Ჰ", "Ჱ", "Ჲ", "Ჳ", "Ჴ", "Ჵ",
    "Ჶ", "Ჷ", "Ჸ", "Ჹ", "Ჺ", "Ჽ", "Ჾ", "Ჿ", "U+1D00", "U+1D01",
    "U+1D02", "U+1D03", "U+1D04", "U+1D05", "U+1D06", "U+1D07", "U+1D08", "U+1D09", "U+1D0A", "U+1D0B",
    "U+1D0C", "U+1D0D", "U+1D0E", "U+1D0F", "U+1D10", "U+1D11", "U+1D12", "U+1D13", "U+1D14", "U+1D15",
    "U+1D16", "U+1D17", "U+1D18", "U+1D19", "U+1D1A", "U+1D1B", "U+1D1C", "U+1D1D", "U+1D1E", "U+1D1F",
    "U+1D20", "U+1D21", "U+1D22", "U+1D23", "U+1D24", "U+1D25", "U+1D26", "U+1D27", "U+1D28", "U+1D29",
    "U+1D2A", "U+1D2B", "U+1D6B", "U+1D6C", "U+1D6D", "U+1D6E", "U+1D6F", "U+1D70", "U+1D71", "U+1D72",
    "U+1D73", "U+1D74", "U+1D75", "U+1D76", "U+1D77", "U+1D79", "U+1D7A", "U+1D7B", "U+1D7C", "U+1D7D",
    "U+1D7E", "U+1D7F", "ᶀ", "ᶁ", "ᶂ", "ᶃ", "ᶄ", "ᶅ", "ᶆ", "ᶇ",
    "ᶈ", "ᶉ", "ᶊ", "ᶋ", "ᶌ", "ᶍ", "ᶎ", "ᶏ", "ᶐ", "ᶑ",
    "ᶒ", "ᶓ", "ᶔ", "ᶕ", "ᶖ", "ᶗ", "ᶘ", "ᶙ", "ᶚ", "U+1E00",
    "U+1E01", "U+1E02", "U+1E03", "U+1E04", "U+1E05", "U+1E06", "U+1E07", "U+1E08", "U+1E09", "U+1E0A",
    "U+1E0B", "U+1E0C", "U+1E0D", "U+1E0E", "U+1E0F", "U+1E10", "U+1E11", "U+1E12", "U+1E13", "U+1E14",
    "U+1E15", "U+1E16", "U+1E17", "U+1E18", "U+1E19", "U+1E1A", "U+1E1B", "U+1E1C", "U+1E1D", "U+1E1E",
    "U+1E1F", "U+1E20", "U+1E21", "U+1E22", "U+1E23", "U+1E24", "U+1E25", "U+1E26", "U+1E27", "U+1E28",
    "U+1E29", "U+1E2A", "U+1E2B", "U+1E2C", "U+1E2D", "U+1E2E", "U+1E2F", "U+1E30", "U+1E31", "U+1E32",
    "U+1E33", "U+1E34", "U+1E35", "U+1E36", "U+1E37", "U+1E38", "U+1E39", "U+1E3A", "U+1E3B", "U+1E3C",
    "U+1E3D", "U+1E3E", "U+1E3F", "U+1E40", "U+1E41", "U+1E42", "U+1E43", "U+1E44", "U+1E45", "U+1E46",
    "U+1E47", "U+1E48", "U+1E49", "U+1E4A", "U+1E4B", "U+1E4C", "U+1E4D", "U+1E4E", "U+1E4F", "U+1E50",
    "U+1E51", "U+1E52", "U+1E53", "U+1E54", "U+1E55", "U+1E56", "U+1E57", "U+1E58", "U+1E59", "U+1E5A",
    "U+1E5B", "U+1E5C", "U+1E5D", "U+1E5E", "U+1E5F", "U+1E60", "U+1E61", "U+1E62", "U+1E63", "U+1E64",
    "U+1E65", "U+1E66", "U+1E67", "U+1E68", "U+1E69", "U+1E6A", "U+1E6B", "U+1E6C", "U+1E6D", "U+1E6E",
    "U+1E6F", "U+1E70", "U+1E71", "U+1E72", "U+1E73", "U+1E74", "U+1E75", "U+1E76", "U+1E77", "U+1E78",
    "U+1E79", "U+1E7A", "U+1E7B", "U+1E7C", "U+1E7D", "U+1E7E", "U+1E7F", "Ẁ", "ẁ", "Ẃ",
    "ẃ", "Ẅ", "ẅ", "Ẇ", "ẇ", "Ẉ", "ẉ", "Ẋ", "ẋ", "Ẍ",
    "ẍ", "Ẏ", "ẏ", "Ẑ", "ẑ", "Ẓ", "ẓ", "Ẕ", "ẕ", "ẖ",
    "ẗ", "ẘ", "ẙ", "ẚ", "ẛ", "ẜ", "ẝ", "ẞ", "ẟ", "Ạ",
    "ạ", "Ả", "ả", "Ấ", "ấ", "Ầ", "ầ", "Ẩ", "ẩ", "Ẫ",
    "ẫ", "Ậ", "ậ", "Ắ", "ắ", "Ằ", "ằ", "Ẳ", "ẳ", "Ẵ",
    "ẵ", "Ặ", "ặ", "Ẹ", "ẹ", "Ẻ", "ẻ", "Ẽ", "ẽ", "Ế",
    "ế", "Ề", "ề", "Ể", "ể", "Ễ", "ễ", "Ệ", "ệ", "Ỉ",
    "ỉ", "Ị", "ị", "Ọ", "ọ", "Ỏ", "ỏ", "Ố", "ố", "Ồ",
    "ồ", "Ổ", "ổ", "Ỗ", "ỗ", "Ộ", "ộ", "Ớ", "ớ", "Ờ",
    "ờ", "Ở", "ở", "Ỡ", "ỡ", "Ợ", "ợ", "Ụ", "ụ", "Ủ",
    "ủ", "Ứ", "ứ", "Ừ", "ừ", "Ử", "ử", "Ữ", "ữ", "Ự",
    "ự", "Ỳ", "ỳ", "Ỵ", "ỵ", "Ỷ", "ỷ", "Ỹ", "ỹ", "Ỻ",
    "ỻ", "Ỽ", "ỽ", "Ỿ", "ỿ", "U+1F00", "U+1F01", "U+1F02", "U+1F03", "U+1F04",
    "U+1F05", "U+1F06", "U+1F07", "U+1F08", "U+1F09", "U+1F0A", "U+1F0B", "U+1F0C", "U+1F0D", "U+1F0E",
    "U+1F0F", "U+1F10", "U+1F11", "U+1F12", "U+1F13", "U+1F14", "U+1F15", "U+1F18", "U+1F19", "U+1F1A",
    "U+1F1B", "U+1F1C", "U+1F1D", "U+1F20", "U+1F21", "U+1F22", "U+1F23", "U+1F24", "U+1F25", "U+1F26",
    "U+1F27", "U+1F28", "U+1F29", "U+1F2A", "U+1F2B", "U+1F2C", "U+1F2D", "U+1F2E", "U+1F2F", "U+1F30",
    "U+1F31", "U+1F32", "U+1F33", "U+1F34", "U+1F35", "U+1F36", "U+1F37", "U+1F38", "U+1F39", "U+1F3A",
    "U+1F3B", "U+1F3C", "U+1F3D", "U+1F3E", "U+1F3F", "U+1F40", "U+1F41", "U+1F42", "U+1F43", "U+1F44",
    "U+1F45", "U+1F48", "U+1F49", "U+1F4A", "U+1F4B", "U+1F4C", "U+1F4D", "U+1F50", "U+1F51", "U+1F52",
    "U+1F53", "U+1F54", "U+1F55", "U+1F56", "U+1F57", "U+1F59", "U+1F5B", "U+1F5D", "U+1F5F", "U+1F60",
    "U+1F61", "U+1F62", "U+1F63", "U+1F64", "U+1F65", "U+1F66", "U+1F67", "U+1F68", "U+1F69", "U+1F6A",
    "U+1F6B", "U+1F6C", "U+1F6D", "U+1F6E", "U+1F6F", "U+1F70", "U+1F71", "U+1F72", "U+1F73", "U+1F74",
    "U+1F75", "U+1F76", "U+1F77", "U+1F78", "U+1F79", "U+1F7A", "U+1F7B", "U+1F7C", "U+1F7D", "ᾀ",
    "ᾁ", "ᾂ", "ᾃ", "ᾄ", "ᾅ", "ᾆ", "ᾇ", "ᾈ", "ᾉ", "ᾊ",
    "ᾋ", "ᾌ", "ᾍ", "ᾎ", "ᾏ", "ᾐ", "ᾑ", "ᾒ", "ᾓ", "ᾔ",
    "ᾕ", "ᾖ", "ᾗ", "ᾘ", "ᾙ", "ᾚ", "ᾛ", "ᾜ", "ᾝ", "ᾞ",
    "ᾟ", "ᾠ", "ᾡ", "ᾢ", "ᾣ", "ᾤ", "ᾥ", "ᾦ", "ᾧ", "ᾨ",
    "ᾩ", "ᾪ", "ᾫ", "ᾬ", "ᾭ", "ᾮ", "ᾯ", "ᾰ", "ᾱ", "ᾲ",
    "ᾳ", "ᾴ", "ᾶ", "ᾷ", "Ᾰ", "Ᾱ", "Ὰ", "Ά", "ᾼ", "ι",
    "ῂ", "ῃ", "ῄ", "ῆ", "ῇ", "Ὲ", "Έ", "Ὴ", "Ή", "ῌ",
    "ῐ", "ῑ", "ῒ", "ΐ", "ῖ", "ῗ", "Ῐ", "Ῑ", "Ὶ", "Ί",
    "ῠ", "ῡ", "ῢ", "ΰ", "ῤ", "ῥ", "ῦ", "ῧ", "Ῠ", "Ῡ",
    "Ὺ", "Ύ", "Ῥ", "ῲ", "ῳ", "ῴ", "ῶ", "ῷ", "Ὸ", "Ό",
    "Ὼ", "Ώ", "ῼ", "U+2102", "U+2107", "U+210A", "U+210B", "U+210C", "U+210D", "U+210E",
    "U+210F", "U+2110", "U+2111", "U+2112", "U+2113", "U+2115", "U+2119", "U+211A", "U+211B", "U+211C",
    "U+211D", "U+2124", "U+2126", "U+2128", "U+212A", "U+212B", "U+212C", "U+212D", "U+212F", "U+2130",
    "U+2131", "U+2132", "U+2133", "U+2134", "U+2139", "U+213C", "U+213D", "U+213E", "U+213F", "U+2145",
    "U+2146", "U+2147", "U+2148", "U+2149", "U+214E", "U+2160", "U+2161", "U+2162", "U+2163", "U+2164",
    "U+2165", "U+2166", "U+2167", "U+2168", "U+2169", "U+216A", "U+216B", "U+216C", "U+216D", "U+216E",
    "U+216F", "U+2170", "U+2171", "U+2172", "U+2173", "U+2174", "U+2175", "U+2176", "U+2177", "U+2178",
    "U+2179", "U+217A", "U+217B", "U+217C", "U+217D", "U+217E", "U+217F", "Ↄ", "ↄ", "Ⓐ",
    "Ⓑ", "Ⓒ", "Ⓓ", "Ⓔ", "Ⓕ", "Ⓖ", "Ⓗ", "Ⓘ", "Ⓙ", "Ⓚ",
    "Ⓛ", "Ⓜ", "Ⓝ", "Ⓞ", "Ⓟ", "Ⓠ", "Ⓡ", "Ⓢ", "Ⓣ", "Ⓤ",
    "Ⓥ", "Ⓦ", "Ⓧ", "Ⓨ", "Ⓩ", "ⓐ", "ⓑ", "ⓒ", "ⓓ", "ⓔ",
    "ⓕ", "ⓖ", "ⓗ", "ⓘ", "ⓙ", "ⓚ", "ⓛ", "ⓜ", "ⓝ", "ⓞ",
    "ⓟ", "ⓠ", "ⓡ", "ⓢ", "ⓣ", "ⓤ", "ⓥ", "ⓦ", "ⓧ", "ⓨ",
    "ⓩ", "U+2C00", "U+2C01", "U+2C02", "U+2C03", "U+2C04", "U+2C05", "U+2C06", "U+2C07", "U+2C08",
    "U+2C09", "U+2C0A", "U+2C0B", "U+2C0C", "U+2C0D", "U+2C0E", "U+2C0F", "U+2C10", "U+2C11", "U+2C12",
    "U+2C13", "U+2C14", "U+2C15", "U+2C16", "U+2C17", "U+2C18", "U+2C19", "U+2C1A", "U+2C1B", "U+2C1C",
    "U+2C1D", "U+2C1E", "U+2C1F", "U+2C20", "U+2C21", "U+2C22", "U+2C23", "U+2C24", "U+2C25", "U+2C26",
    "U+2C27", "U+2C28", "U+2C29", "U+2C2A", "U+2C2B", "U+2C2C", "U+2C2D", "U+2C2E", "U+2C2F", "U+2C30",
    "U+2C31", "U+2C32", "U+2C33", "U+2C34", "U+2C35", "U+2C36", "U+2C37", "U+2C38", "U+2C39", "U+2C3A",
    "U+2C3B", "U+2C3C", "U+2C3D", "U+2C3E", "U+2C3F", "U+2C40", "U+2C41", "U+2C42", "U+2C43", "U+2C44",
    "U+2C45", "U+2C46", "U+2C47", "U+2C48", "U+2C49", "U+2C4A", "U+2C4B", "U+2C4C", "U+2C4D", "U+2C4E",
    "U+2C4F", "U+2C50", "U+2C51", "U+2C52", "U+2C53", "U+2C54", "U+2C55", "U+2C56", "U+2C57", "U+2C58",
    "U+2C59", "U+2C5A", "U+2C5B", "U+2C5C", "U+2C5D", "U+2C5E", "U+2C5F", "U+2C60", "U+2C61", "U+2C62",
    "U+2C63", "U+2C64", "U+2C65", "U+2C66", "U+2C67", "U+2C68", "U+2C69", "U+2C6A", "U+2C6B", "U+2C6C",
    "U+2C6D", "U+2C6E", "U+2C6F", "U+2C70", "U+2C71", "U+2C72", "U+2C73", "U+2C74", "U+2C75", "U+2C76",
    "U+2C77", "U+2C78", "U+2C79", "U+2C7A", "U+2C7B", "U+2C7E", "U+2C7F", "Ⲁ", "ⲁ", "Ⲃ",
    "ⲃ", "Ⲅ", "ⲅ", "Ⲇ", "ⲇ", "Ⲉ", "ⲉ", "Ⲋ", "ⲋ", "Ⲍ",
    "ⲍ", "Ⲏ", "ⲏ", "Ⲑ", "ⲑ", "Ⲓ", "ⲓ", "Ⲕ", "ⲕ", "Ⲗ",
    "ⲗ", "Ⲙ", "ⲙ", "Ⲛ", "ⲛ", "Ⲝ", "ⲝ", "Ⲟ", "ⲟ", "Ⲡ",
    "ⲡ", "Ⲣ", "ⲣ", "Ⲥ", "ⲥ", "Ⲧ", "ⲧ", "Ⲩ", "ⲩ", "Ⲫ",
    "ⲫ", "Ⲭ", "ⲭ", "Ⲯ", "ⲯ", "Ⲱ", "ⲱ", "Ⲳ", "ⲳ", "Ⲵ",
    "ⲵ", "Ⲷ", "ⲷ", "Ⲹ", "ⲹ", "Ⲻ", "ⲻ", "Ⲽ", "ⲽ", "Ⲿ",
    "ⲿ", "Ⳁ", "ⳁ", "Ⳃ", "ⳃ", "Ⳅ", "ⳅ", "Ⳇ", "ⳇ", "Ⳉ",
    "ⳉ", "Ⳋ", "ⳋ", "Ⳍ", "ⳍ", "Ⳏ", "ⳏ", "Ⳑ", "ⳑ", "Ⳓ",
    "ⳓ", "Ⳕ", "ⳕ", "Ⳗ", "ⳗ", "Ⳙ", "ⳙ", "Ⳛ", "ⳛ", "Ⳝ",
    "ⳝ", "Ⳟ", "ⳟ", "Ⳡ", "ⳡ", "Ⳣ", "ⳣ", "ⳤ", "Ⳬ", "ⳬ",
    "Ⳮ", "ⳮ", "Ⳳ", "ⳳ", "U+2D00", "U+2D01", "U+2D02", "U+2D03", "U+2D04", "U+2D05",
    "U+2D06", "U+2D07", "U+2D08", "U+2D09", "U+2D0A", "U+2D0B", "U+2D0C", "U+2D0D", "U+2D0E", "U+2D0F",
    "U+2D10", "U+2D11", "U+2D12", "U+2D13", "U+2D14", "U+2D15", "U+2D16", "U+2D17", "U+2D18", "U+2D19",
    "U+2D1A", "U+2D1B", "U+2D1C", "U+2D1D", "U+2D1E", "U+2D1F", "U+2D20", "U+2D21", "U+2D22", "U+2D23",
    "U+2D24", "U+2D25", "U+2D27", "U+2D2D", "U+A640", "U+A641", "U+A642", "U+A643", "U+A644", "U+A645",
    "U+A646", "U+A647", "U+A648", "U+A649", "U+A64A", "U+A64B", "U+A64C", "U+A64D", "U+A64E", "U+A64F",
    "U+A650", "U+A651", "U+A652", "U+A653", "U+A654", "U+A655", "U+A656", "U+A657", "U+A658", "U+A659",
    "U+A65A", "U+A65B", "U+A65C", "U+A65D", "U+A65E", "U+A65F", "U+A660", "U+A661", "U+A662", "U+A663",
    "U+A664", "U+A665", "U+A666", "U+A667", "U+A668", "U+A669", "U+A66A", "U+A66B", "U+A66C", "U+A66D",
    "Ꚁ", "ꚁ", "Ꚃ", "ꚃ", "Ꚅ", "ꚅ", "Ꚇ", "ꚇ", "Ꚉ", "ꚉ",
    "Ꚋ", "ꚋ", "Ꚍ", "ꚍ", "Ꚏ", "ꚏ", "Ꚑ", "ꚑ", "Ꚓ", "ꚓ",
    "Ꚕ", "ꚕ", "Ꚗ", "ꚗ", "Ꚙ", "ꚙ", "Ꚛ", "ꚛ", "U+A722", "U+A723",
    "U+A724", "U+A725", "U+A726", "U+A727", "U+A728", "U+A729", "U+A72A", "U+A72B", "U+A72C", "U+A72D",
    "U+A72E", "U+A72F", "U+A730", "U+A731", "U+A732", "U+A733", "U+A734", "U+A735", "U+A736", "U+A737",
    "U+A738", "U+A739", "U+A73A", "U+A73B", "U+A73C", "U+A73D", "U+A73E", "U+A73F", "U+A740", "U+A741",
    "U+A742", "U+A743", "U+A744", "U+A745", "U+A746", "U+A747", "U+A748", "U+A749", "U+A74A", "U+A74B",
    "U+A74C", "U+A74D", "U+A74E", "U+A74F", "U+A750", "U+A751", "U+A752", "U+A753", "U+A754", "U+A755",
    "U+A756", "U+A757", "U+A758", "U+A759", "U+A75A", "U+A75B", "U+A75C", "U+A75D", "U+A75E", "U+A75F",
    "U+A760", "U+A761", "U+A762", "U+A763", "U+A764", "U+A765", "U+A766", "U+A767", "U+A768", "U+A769",
    "U+A76A", "U+A76B", "U+A76C", "U+A76D", "U+A76E", "U+A76F", "U+A771", "U+A772", "U+A773", "U+A774",
    "U+A775", "U+A776", "U+A777", "U+A778", "U+A779", "U+A77A", "U+A77B", "U+A77C", "U+A77D", "U+A77E",
    "U+A77F", "Ꞁ", "ꞁ", "Ꞃ", "ꞃ", "Ꞅ", "ꞅ", "Ꞇ", "ꞇ", "Ꞌ",
    "ꞌ", "Ɥ", "ꞎ", "Ꞑ", "ꞑ", "Ꞓ", "ꞓ", "ꞔ", "ꞕ", "Ꞗ",
    "ꞗ", "Ꞙ", "ꞙ", "Ꞛ", "ꞛ", "Ꞝ", "ꞝ", "Ꞟ", "ꞟ", "Ꞡ",
    "ꞡ", "Ꞣ", "ꞣ", "Ꞥ", "ꞥ", "Ꞧ", "ꞧ", "Ꞩ", "ꞩ", "Ɦ",
    "Ɜ", "Ɡ", "Ɬ", "Ɪ", "ꞯ", "Ʞ", "Ʇ", "Ʝ", "Ꭓ", "Ꞵ",
    "ꞵ", "Ꞷ", "ꞷ", "Ꞹ", "ꞹ", "Ꞻ", "ꞻ", "Ꞽ", "ꞽ", "Ꞿ",
    "ꞿ", "Ꟁ", "ꟁ", "Ꟃ", "ꟃ", "Ꞔ", "Ʂ", "Ᶎ", "Ꟈ", "ꟈ",
    "Ꟊ", "ꟊ", "Ꟑ", "ꟑ", "ꟓ", "ꟕ", "Ꟗ", "ꟗ", "Ꟙ", "ꟙ",
    "Ꟶ", "ꟶ", "ꟺ", "U+AB30", "U+AB31", "U+AB32", "U+AB33", "U+AB34", "U+AB35", "U+AB36",
    "U+AB37", "U+AB38", "U+AB39", "U+AB3A", "U+AB3B", "U+AB3C", "U+AB3D", "U+AB3E", "U+AB3F", "U+AB40",
    "U+AB41", "U+AB42", "U+AB43", "U+AB44", "U+AB45", "U+AB46", "U+AB47", "U+AB48", "U+AB49", "U+AB4A",
    "U+AB4B", "U+AB4C", "U+AB4D", "U+AB4E", "U+AB4F", "U+AB50", "U+AB51", "U+AB52", "U+AB53", "U+AB54",
    "U+AB55", "U+AB56", "U+AB57", "U+AB58", "U+AB59", "U+AB5A", "U+AB60", "U+AB61", "U+AB62", "U+AB63",
    "U+AB64", "U+AB65", "U+AB66", "U+AB67", "U+AB68", "U+AB70", "U+AB71", "U+AB72", "U+AB73", "U+AB74",
    "U+AB75", "U+AB76", "U+AB77", "U+AB78", "U+AB79", "U+AB7A", "U+AB7B", "U+AB7C", "U+AB7D", "U+AB7E",
    "U+AB7F", "ꮀ", "ꮁ", "ꮂ", "ꮃ", "ꮄ", "ꮅ", "ꮆ", "ꮇ", "ꮈ",
    "ꮉ", "ꮊ", "ꮋ", "ꮌ", "ꮍ", "ꮎ", "ꮏ", "ꮐ", "ꮑ", "ꮒ",
    "ꮓ", "ꮔ", "ꮕ", "ꮖ", "ꮗ", "ꮘ", "ꮙ", "ꮚ", "ꮛ", "ꮜ",
    "ꮝ", "ꮞ", "ꮟ", "ꮠ", "ꮡ", "ꮢ", "ꮣ", "ꮤ", "ꮥ", "ꮦ",
    "ꮧ", "ꮨ", "ꮩ", "ꮪ", "ꮫ", "ꮬ", "ꮭ", "ꮮ", "ꮯ", "ꮰ",
    "ꮱ", "ꮲ", "ꮳ", "ꮴ", "ꮵ", "ꮶ", "ꮷ", "ꮸ", "ꮹ", "ꮺ",
    "ꮻ", "ꮼ", "ꮽ", "ꮾ", "ꮿ", "U+FB00", "U+FB01", "U+FB02", "U+FB03", "U+FB04",
    "U+FB05", "U+FB06", "U+FB13", "U+FB14", "U+FB15", "U+FB16", "U+FB17", "U+FF21", "U+FF22", "U+FF23",
    "U+FF24", "U+FF25", "U+FF26", "U+FF27", "U+FF28", "U+FF29", "U+FF2A", "U+FF2B", "U+FF2C", "U+FF2D",
    "U+FF2E", "U+FF2F", "U+FF30", "U+FF31", "U+FF32", "U+FF33", "U+FF34", "U+FF35", "U+FF36", "U+FF37",
    "U+FF38", "U+FF39", "U+FF3A", "U+FF41", "U+FF42", "U+FF43", "U+FF44", "U+FF45", "U+FF46", "U+FF47",
    "U+FF48", "U+FF49", "U+FF4A", "U+FF4B", "U+FF4C", "U+FF4D", "U+FF4E", "U+FF4F", "U+FF50", "U+FF51",
    "U+FF52", "U+FF53", "U+FF54", "U+FF55", "U+FF56", "U+FF57", "U+FF58", "U+FF59", "U+FF5A", "U+10400",
    "U+10401", "U+10402", "U+10403", "U+10404", "U+10405", "U+10406", "U+10407", "U+10408", "U+10409", "U+1040A",
    "U+1040B", "U+1040C", "U+1040D", "U+1040E", "U+1040F", "U+10410", "U+10411", "U+10412", "U+10413", "U+10414",
    "U+10415", "U+10416", "U+10417", "U+10418", "U+10419", "U+1041A", "U+1041B", "U+1041C", "U+1041D", "U+1041E",
    "U+1041F", "U+10420", "U+10421", "U+10422", "U+10423", "U+10424", "U+10425", "U+10426", "U+10427", "U+10428",
    "U+10429", "U+1042A", "U+1042B", "U+1042C", "U+1042D", "U+1042E", "U+1042F", "U+10430", "U+10431", "U+10432",
    "U+10433", "U+10434", "U+10435", "U+10436", "U+10437", "U+10438", "U+10439", "U+1043A", "U+1043B", "U+1043C",
    "U+1043D", "U+1043E", "U+1043F", "U+10440", "U+10441", "U+10442", "U+10443", "U+10444", "U+10445", "U+10446",
    "U+10447", "U+10448", "U+10449", "U+1044A", "U+1044B", "U+1044C", "U+1044D", "U+1044E", "U+1044F", "U+104B0",
    "U+104B1", "U+104B2", "U+104B3", "U+104B4", "U+104B5", "U+104B6", "U+104B7", "U+104B8", "U+104B9", "U+104BA",
    "U+104BB", "U+104BC", "U+104BD", "U+104BE", "U+104BF", "U+104C0", "U+104C1", "U+104C2", "U+104C3", "U+104C4",
    "U+104C5", "U+104C6", "U+104C7", "U+104C8", "U+104C9", "U+104CA", "U+104CB", "U+104CC", "U+104CD", "U+104CE",
    "U+104CF", "U+104D0", "U+104D1", "U+104D2", "U+104D3", "U+104D8", "U+104D9", "U+104DA", "U+104DB", "U+104DC",
    "U+104DD", "U+104DE", "U+104DF", "U+104E0", "U+104E1", "U+104E2", "U+104E3", "U+104E4", "U+104E5", "U+104E6",
    "U+104E7", "U+104E8", "U+104E9", "U+104EA", "U+104EB", "U+104EC", "U+104ED", "U+104EE", "U+104EF", "U+104F0",
    "U+104F1", "U+104F2", "U+104F3", "U+104F4", "U+104F5", "U+104F6", "U+104F7", "U+104F8", "U+104F9", "U+104FA",
    "U+104FB", "U+10570", "U+10571", "U+10572", "U+10573", "U+10574", "U+10575", "U+10576", "U+10577", "U+10578",
    "U+10579", "U+1057A", "U+1057C", "U+1057D", "U+1057E", "U+1057F", "U+10580", "U+10581", "U+10582", "U+10583",
    "U+10584", "U+10585", "U+10586", "U+10587", "U+10588", "U+10589", "U+1058A", "U+1058C", "U+1058D", "U+1058E",
    "U+1058F", "U+10590", "U+10591", "U+10592", "U+10594", "U+10595", "U+10597", "U+10598", "U+10599", "U+1059A",
    "U+1059B", "U+1059C", "U+1059D", "U+1059E", "U+1059F", "U+105A0", "U+105A1", "U+105A3", "U+105A4", "U+105A5",
    "U+105A6", "U+105A7", "U+105A8", "U+105A9", "U+105AA", "U+105AB", "U+105AC", "U+105AD", "U+105AE", "U+105AF",
    "U+105B0", "U+105B1", "U+105B3", "U+105B4", "U+105B5", "U+105B6", "U+105B7", "U+105B8", "U+105B9", "U+105BB",
    "U+105BC", "U+10C80", "U+10C81", "U+10C82", "U+10C83", "U+10C84", "U+10C85", "U+10C86", "U+10C87", "U+10C88",
    "U+10C89", "U+10C8A", "U+10C8B", "U+10C8C", "U+10C8D", "U+10C8E", "U+10C8F", "U+10C90", "U+10C91", "U+10C92",
    "U+10C93", "U+10C94", "U+10C95", "U+10C96", "U+10C97", "U+10C98", "U+10C99", "U+10C9A", "U+10C9B", "U+10C9C",
    "U+10C9D", "U+10C9E", "U+10C9F", "U+10CA0", "U+10CA1", "U+10CA2", "U+10CA3", "U+10CA4", "U+10CA5", "U+10CA6",
    "U+10CA7", "U+10CA8", "U+10CA9", "U+10CAA", "U+10CAB", "U+10CAC", "U+10CAD", "U+10CAE", "U+10CAF", "U+10CB0",
    "U+10CB1", "U+10CB2", "U+10CC0", "U+10CC1", "U+10CC2", "U+10CC3", "U+10CC4", "U+10CC5", "U+10CC6", "U+10CC7",
    "U+10CC8", "U+10CC9", "U+10CCA", "U+10CCB", "U+10CCC", "U+10CCD", "U+10CCE", "U+10CCF", "U+10CD0", "U+10CD1",
    "U+10CD2", "U+10CD3", "U+10CD4", "U+10CD5", "U+10CD6", "U+10CD7", "U+10CD8", "U+10CD9", "U+10CDA", "U+10CDB",
    "U+10CDC", "U+10CDD", "U+10CDE", "U+10CDF", "U+10CE0", "U+10CE1", "U+10CE2", "U+10CE3", "U+10CE4", "U+10CE5",
    "U+10CE6", "U+10CE7", "U+10CE8", "U+10CE9", "U+10CEA", "U+10CEB", "U+10CEC", "U+10CED", "U+10CEE", "U+10CEF",
    "U+10CF0", "U+10CF1", "U+10CF2", "U+118A0", "U+118A1", "U+118A2", "U+118A3", "U+118A4", "U+118A5", "U+118A6",
    "U+118A7", "U+118A8", "U+118A9", "U+118AA", "U+118AB", "U+118AC", "U+118AD", "U+118AE", "U+118AF", "U+118B0",
    "U+118B1", "U+118B2", "U+118B3", "U+118B4", "U+118B5", "U+118B6", "U+118B7", "U+118B8", "U+118B9", "U+118BA",
    "U+118BB", "U+118BC", "U+118BD", "U+118BE", "U+118BF", "U+118C0", "U+118C1", "U+118C2", "U+118C3", "U+118C4",
    "U+118C5", "U+118C6", "U+118C7", "U+118C8", "U+118C9", "U+118CA", "U+118CB", "U+118CC", "U+118CD", "U+118CE",
    "U+118CF", "U+118D0", "U+118D1", "U+118D2", "U+118D3", "U+118D4", "U+118D5", "U+118D6", "U+118D7", "U+118D8",
    "U+118D9", "U+118DA", "U+118DB", "U+118DC", "U+118DD", "U+118DE", "U+118DF", "U+16E40", "U+16E41", "U+16E42",
    "U+16E43", "U+16E44", "U+16E45", "U+16E46", "U+16E47", "U+16E48", "U+16E49", "U+16E4A", "U+16E4B", "U+16E4C",
    "U+16E4D", "U+16E4E", "U+16E4F", "U+16E50", "U+16E51", "U+16E52", "U+16E53", "U+16E54", "U+16E55", "U+16E56",
    "U+16E57", "U+16E58", "U+16E59", "U+16E5A", "U+16E5B", "U+16E5C", "U+16E5D", "U+16E5E", "U+16E5F", "U+16E60",
    "U+16E61", "U+16E62", "U+16E63", "U+16E64", "U+16E65", "U+16E66", "U+16E67", "U+16E68", "U+16E69", "U+16E6A",
    "U+16E6B", "U+16E6C", "U+16E6D", "U+16E6E", "U+16E6F", "U+16E70", "U+16E71", "U+16E72", "U+16E73", "U+16E74",
    "U+16E75", "U+16E76", "U+16E77", "U+16E78", "U+16E79", "U+16E7A", "U+16E7B", "U+16E7C", "U+16E7D", "U+16E7E",
    "U+16E7F", "U+1D400", "U+1D401", "U+1D402", "U+1D403", "U+1D404", "U+1D405", "U+1D406", "U+1D407", "U+1D408",
    "U+1D409", "U+1D40A", "U+1D40B", "U+1D40C", "U+1D40D", "U+1D40E", "U+1D40F", "U+1D410", "U+1D411", "U+1D412",
    "U+1D413", "U+1D414", "U+1D415", "U+1D416", "U+1D417", "U+1D418", "U+1D419", "U+1D41A", "U+1D41B", "U+1D41C",
    "U+1D41D", "U+1D41E", "U+1D41F", "U+1D420", "U+1D421", "U+1D422", "U+1D423", "U+1D424", "U+1D425", "U+1D426",
    "U+1D427", "U+1D428", "U+1D429", "U+1D42A", "U+1D42B", "U+1D42C", "U+1D42D", "U+1D42E", "U+1D42F", "U+1D430",
    "U+1D431", "U+1D432", "U+1D433", "U+1D434", "U+1D435", "U+1D436", "U+1D437", "U+1D438", "U+1D439", "U+1D43A",
    "U+1D43B", "U+1D43C", "U+1D43D", "U+1D43E", "U+1D43F", "U+1D440", "U+1D441", "U+1D442", "U+1D443", "U+1D444",
    "U+1D445", "U+1D446", "U+1D447", "U+1D448", "U+1D449", "U+1D44A", "U+1D44B", "U+1D44C", "U+1D44D", "U+1D44E",
    "U+1D44F", "U+1D450", "U+1D451", "U+1D452", "U+1D453", "U+1D454", "U+1D456", "U+1D457", "U+1D458", "U+1D459",
    "U+1D45A", "U+1D45B", "U+1D45C", "U+1D45D", "U+1D45E", "U+1D45F", "U+1D460", "U+1D461", "U+1D462", "U+1D463",
    "U+1D464", "U+1D465", "U+1D466", "U+1D467", "U+1D468", "U+1D469", "U+1D46A", "U+1D46B", "U+1D46C", "U+1D46D",
    "U+1D46E", "U+1D46F", "U+1D470", "U+1D471", "U+1D472", "U+1D473", "U+1D474", "U+1D475", "U+1D476", "U+1D477",
    "U+1D478", "U+1D479", "U+1D47A", "U+1D47B", "U+1D47C", "U+1D47D", "U+1D47E", "U+1D47F", "U+1D480", "U+1D481",
    "U+1D482", "U+1D483", "U+1D484", "U+1D485", "U+1D486", "U+1D487", "U+1D488", "U+1D489", "U+1D48A", "U+1D48B",
    "U+1D48C", "U+1D48D", "U+1D48E", "U+1D48F", "U+1D490", "U+1D491", "U+1D492", "U+1D493", "U+1D494", "U+1D495",
    "U+1D496", "U+1D497", "U+1D498", "U+1D499", "U+1D49A", "U+1D49B", "U+1D49C", "U+1D49E", "U+1D49F", "U+1D4A2",
    "U+1D4A5", "U+1D4A6", "U+1D4A9", "U+1D4AA", "U+1D4AB", "U+1D4AC", "U+1D4AE", "U+1D4AF", "U+1D4B0", "U+1D4B1",
    "U+1D4B2", "U+1D4B3", "U+1D4B4", "U+1D4B5", "U+1D4B6", "U+1D4B7", "U+1D4B8", "U+1D4B9", "U+1D4BB", "U+1D4BD",
    "U+1D4BE", "U+1D4BF", "U+1D4C0", "U+1D4C1", "U+1D4C2", "U+1D4C3", "U+1D4C5", "U+1D4C6", "U+1D4C7", "U+1D4C8",
    "U+1D4C9", "U+1D4CA", "U+1D4CB", "U+1D4CC", "U+1D4CD", "U+1D4CE", "U+1D4CF", "U+1D4D0", "U+1D4D1", "U+1D4D2",
    "U+1D4D3", "U+1D4D4", "U+1D4D5", "U+1D4D6", "U+1D4D7", "U+1D4D8", "U+1D4D9", "U+1D4DA", "U+1D4DB", "U+1D4DC",
    "U+1D4DD", "U+1D4DE", "U+1D4DF", "U+1D4E0", "U+1D4E1", "U+1D4E2", "U+1D4E3", "U+1D4E4", "U+1D4E5", "U+1D4E6",
    "U+1D4E7", "U+1D4E8", "U+1D4E9", "U+1D4EA", "U+1D4EB", "U+1D4EC", "U+1D4ED", "U+1D4EE", "U+1D4EF", "U+1D4F0",
    "U+1D4F1", "U+1D4F2", "U+1D4F3", "U+1D4F4", "U+1D4F5", "U+1D4F6", "U+1D4F7", "U+1D4F8", "U+1D4F9", "U+1D4FA",
    "U+1D4FB", "U+1D4FC", "U+1D4FD", "U+1D4FE", "U+1D4FF", "U+1D500", "U+1D501", "U+1D502", "U+1D503", "U+1D504",
    "U+1D505", "U+1D507", "U+1D508", "U+1D509", "U+1D50A", "U+1D50D", "U+1D50E", "U+1D50F", "U+1D510", "U+1D511",
    "U+1D512", "U+1D513", "U+1D514", "U+1D516", "U+1D517", "U+1D518", "U+1D519", "U+1D51A", "U+1D51B", "U+1D51C",
    "U+1D51E", "U+1D51F", "U+1D520", "U+1D521", "U+1D522", "U+1D523", "U+1D524", "U+1D525", "U+1D526", "U+1D527",
    "U+1D528", "U+1D529", "U+1D52A", "U+1D52B", "U+1D52C", "U+1D52D", "U+1D52E", "U+1D52F", "U+1D530", "U+1D531",
    "U+1D532", "U+1D533", "U+1D534", "U+1D535", "U+1D536", "U+1D537", "U+1D538", "U+1D539", "U+1D53B", "U+1D53C",
    "U+1D53D", "U+1D53E", "U+1D540", "U+1D541", "U+1D542", "U+1D543", "U+1D544", "U+1D546", "U+1D54A", "U+1D54B",
    "U+1D54C", "U+1D54D", "U+1D54E", "U+1D54F", "U+1D550", "U+1D552", "U+1D553", "U+1D554", "U+1D555", "U+1D556",
    "U+1D557", "U+1D558", "U+1D559", "U+1D55A", "U+1D55B", "U+1D55C", "U+1D55D", "U+1D55E", "U+1D55F", "U+1D560",
    "U+1D561", "U+1D562", "U+1D563", "U+1D564", "U+1D565", "U+1D566", "U+1D567", "U+1D568", "U+1D569", "U+1D56A",
    "U+1D56B", "U+1D56C", "U+1D56D", "U+1D56E", "U+1D56F", "U+1D570", "U+1D571", "U+1D572", "U+1D573", "U+1D574",
    "U+1D575", "U+1D576", "U+1D577", "U+1D578", "U+1D579", "U+1D57A", "U+1D57B", "U+1D57C", "U+1D57D", "U+1D57E",
    "U+1D57F", "U+1D580", "U+1D581", "U+1D582", "U+1D583", "U+1D584", "U+1D585", "U+1D586", "U+1D587", "U+1D588",
    "U+1D589", "U+1D58A", "U+1D58B", "U+1D58C", "U+1D58D", "U+1D58E", "U+1D58F", "U+1D590", "U+1D591", "U+1D592",
    "U+1D593", "U+1D594", "U+1D595", "U+1D596", "U+1D597", "U+1D598", "U+1D599", "U+1D59A", "U+1D59B", "U+1D59C",
    "U+1D59D", "U+1D59E", "U+1D59F", "U+1D5A0", "U+1D5A1", "U+1D5A2", "U+1D5A3", "U+1D5A4", "U+1D5A5", "U+1D5A6",
    "U+1D5A7", "U+1D5A8", "U+1D5A9", "U+1D5AA", "U+1D5AB", "U+1D5AC", "U+1D5AD", "U+1D5AE", "U+1D5AF", "U+1D5B0",
    "U+1D5B1", "U+1D5B2", "U+1D5B3", "U+1D5B4", "U+1D5B5", "U+1D5B6", "U+1D5B7", "U+1D5B8", "U+1D5B9", "U+1D5BA",
    "U+1D5BB", "U+1D5BC", "U+1D5BD", "U+1D5BE", "U+1D5BF", "U+1D5C0", "U+1D5C1", "U+1D5C2", "U+1D5C3", "U+1D5C4",
    "U+1D5C5", "U+1D5C6", "U+1D5C7", "U+1D5C8", "U+1D5C9", "U+1D5CA", "U+1D5CB", "U+1D5CC", "U+1D5CD", "U+1D5CE",
    "U+1D5CF", "U+1D5D0", "U+1D5D1", "U+1D5D2", "U+1D5D3", "U+1D5D4", "U+1D5D5", "U+1D5D6", "U+1D5D7", "U+1D5D8",
    "U+1D5D9", "U+1D5DA", "U+1D5DB", "U+1D5DC", "U+1D5DD", "U+1D5DE", "U+1D5DF", "U+1D5E0", "U+1D5E1", "U+1D5E2",
    "U+1D5E3", "U+1D5E4", "U+1D5E5", "U+1D5E6", "U+1D5E7", "U+1D5E8", "U+1D5E9", "U+1D5EA", "U+1D5EB", "U+1D5EC",
    "U+1D5ED", "U+1D5EE", "U+1D5EF", "U+1D5F0", "U+1D5F1", "U+1D5F2", "U+1D5F3", "U+1D5F4", "U+1D5F5", "U+1D5F6",
    "U+1D5F7", "U+1D5F8", "U+1D5F9", "U+1D5FA", "U+1D5FB", "U+1D5FC", "U+1D5FD", "U+1D5FE", "U+1D5FF", "U+1D600",
    "U+1D601", "U+1D602", "U+1D603", "U+1D604", "U+1D605", "U+1D606", "U+1D607", "U+1D608", "U+1D609", "U+1D60A",
    "U+1D60B", "U+1D60C", "U+1D60D", "U+1D60E", "U+1D60F", "U+1D610", "U+1D611", "U+1D612", "U+1D613", "U+1D614",
    "U+1D615", "U+1D616", "U+1D617", "U+1D618", "U+1D619", "U+1D61A", "U+1D61B", "U+1D61C", "U+1D61D", "U+1D61E",
    "U+1D61F", "U+1D620", "U+1D621", "U+1D622", "U+1D623", "U+1D624", "U+1D625", "U+1D626", "U+1D627", "U+1D628",
    "U+1D629", "U+1D62A", "U+1D62B", "U+1D62C", "U+1D62D", "U+1D62E", "U+1D62F", "U+1D630", "U+1D631", "U+1D632",
    "U+1D633", "U+1D634", "U+1D635", "U+1D636", "U+1D637", "U+1D638", "U+1D639", "U+1D63A", "U+1D63B", "U+1D63C",
    "U+1D63D", "U+1D63E", "U+1D63F", "U+1D640", "U+1D641", "U+1D642", "U+1D643", "U+1D644", "U+1D645", "U+1D646",
    "U+1D647", "U+1D648", "U+1D649", "U+1D64A", "U+1D64B", "U+1D64C", "U+1D64D", "U+1D64E", "U+1D64F", "U+1D650",
    "U+1D651", "U+1D652", "U+1D653", "U+1D654", "U+1D655", "U+1D656", "U+1D657", "U+1D658", "U+1D659", "U+1D65A",
    "U+1D65B", "U+1D65C", "U+1D65D", "U+1D65E", "U+1D65F", "U+1D660", "U+1D661", "U+1D662", "U+1D663", "U+1D664",
    "U+1D665", "U+1D666", "U+1D667", "U+1D668", "U+1D669", "U+1D66A", "U+1D66B", "U+1D66C", "U+1D66D", "U+1D66E",
    "U+1D66F", "U+1D670", "U+1D671", "U+1D672", "U+1D673", "U+1D674", "U+1D675", "U+1D676", "U+1D677", "U+1D678",
    "U+1D679", "U+1D67A", "U+1D67B", "U+1D67C", "U+1D67D", "U+1D67E", "U+1D67F", "U+1D680", "U+1D681", "U+1D682",
    "U+1D683", "U+1D684", "U+1D685", "U+1D686", "U+1D687", "U+1D688", "U+1D689", "U+1D68A", "U+1D68B", "U+1D68C",
    "U+1D68D", "U+1D68E", "U+1D68F", "U+1D690", "U+1D691", "U+1D692", "U+1D693", "U+1D694", "U+1D695", "U+1D696",
    "U+1D697", "U+1D698", "U+1D699", "U+1D69A", "U+1D69B", "U+1D69C", "U+1D69D", "U+1D69E", "U+1D69F", "U+1D6A0",
    "U+1D6A1", "U+1D6A2", "U+1D6A3", "U+1D6A4", "U+1D6A5", "U+1D6A8", "U+1D6A9", "U+1D6AA", "U+1D6AB", "U+1D6AC",
    "U+1D6AD", "U+1D6AE", "U+1D6AF", "U+1D6B0", "U+1D6B1", "U+1D6B2", "U+1D6B3", "U+1D6B4", "U+1D6B5", "U+1D6B6",
    "U+1D6B7", "U+1D6B8", "U+1D6B9", "U+1D6BA", "U+1D6BB", "U+1D6BC", "U+1D6BD", "U+1D6BE", "U+1D6BF", "U+1D6C0",
    "U+1D6C2", "U+1D6C3", "U+1D6C4", "U+1D6C5", "U+1D6C6", "U+1D6C7", "U+1D6C8", "U+1D6C9", "U+1D6CA", "U+1D6CB",
    "U+1D6CC", "U+1D6CD", "U+1D6CE", "U+1D6CF", "U+1D6D0", "U+1D6D1", "U+1D6D2", "U+1D6D3", "U+1D6D4", "U+1D6D5",
    "U+1D6D6", "U+1D6D7", "U+1D6D8", "U+1D6D9", "U+1D6DA", "U+1D6DC", "U+1D6DD", "U+1D6DE", "U+1D6DF", "U+1D6E0",
    "U+1D6E1", "U+1D6E2", "U+1D6E3", "U+1D6E4", "U+1D6E5", "U+1D6E6", "U+1D6E7", "U+1D6E8", "U+1D6E9", "U+1D6EA",
    "U+1D6EB", "U+1D6EC", "U+1D6ED", "U+1D6EE", "U+1D6EF", "U+1D6F0", "U+1D6F1", "U+1D6F2", "U+1D6F3", "U+1D6F4",
    "U+1D6F5", "U+1D6F6", "U+1D6F7", "U+1D6F8", "U+1D6F9", "U+1D6FA", "U+1D6FC", "U+1D6FD", "U+1D6FE", "U+1D6FF",
    "U+1D700", "U+1D701", "U+1D702", "U+1D703", "U+1D704", "U+1D705", "U+1D706", "U+1D707", "U+1D708", "U+1D709",
    "U+1D70A", "U+1D70B", "U+1D70C", "U+1D70D", "U+1D70E", "U+1D70F", "U+1D710", "U+1D711", "U+1D712", "U+1D713",
    "U+1D714", "U+1D716", "U+1D717", "U+1D718", "U+1D719", "U+1D71A", "U+1D71B", "U+1D71C", "U+1D71D", "U+1D71E",
    "U+1D71F", "U+1D720", "U+1D721", "U+1D722", "U+1D723", "U+1D724", "U+1D725", "U+1D726", "U+1D727", "U+1D728",
    "U+1D729", "U+1D72A", "U+1D72B", "U+1D72C", "U+1D72D", "U+1D72E", "U+1D72F", "U+1D730", "U+1D731", "U+1D732",
    "U+1D733", "U+1D734", "U+1D736", "U+1D737", "U+1D738", "U+1D739", "U+1D73A", "U+1D73B", "U+1D73C", "U+1D73D",
    "U+1D73E", "U+1D73F", "U+1D740", "U+1D741", "U+1D742", "U+1D743", "U+1D744", "U+1D745", "U+1D746", "U+1D747",
    "U+1D748", "U+1D749", "U+1D74A", "U+1D74B", "U+1D74C", "U+1D74D", "U+1D74E", "U+1D750", "U+1D751", "U+1D752",
    "U+1D753", "U+1D754", "U+1D755", "U+1D756", "U+1D757", "U+1D758", "U+1D759", "U+1D75A", "U+1D75B", "U+1D75C",
    "U+1D75D", "U+1D75E", "U+1D75F", "U+1D760", "U+1D761", "U+1D762", "U+1D763", "U+1D764", "U+1D765", "U+1D766",
    "U+1D767", "U+1D768", "U+1D769", "U+1D76A", "U+1D76B", "U+1D76C", "U+1D76D", "U+1D76E", "U+1D770", "U+1D771",
    "U+1D772", "U+1D773", "U+1D774", "U+1D775", "U+1D776", "U+1D777", "U+1D778", "U+1D779", "U+1D77A", "U+1D77B",
    "U+1D77C", "U+1D77D", "U+1D77E", "U+1D77F", "U+1D780", "U+1D781", "U+1D782", "U+1D783", "U+1D784", "U+1D785",
    "U+1D786", "U+1D787", "U+1D788", "U+1D78A", "U+1D78B", "U+1D78C", "U+1D78D", "U+1D78E", "U+1D78F", "U+1D790",
    "U+1D791", "U+1D792", "U+1D793", "U+1D794", "U+1D795", "U+1D796", "U+1D797", "U+1D798", "U+1D799", "U+1D79A",
    "U+1D79B", "U+1D79C", "U+1D79D", "U+1D79E", "U+1D79F", "U+1D7A0", "U+1D7A1", "U+1D7A2", "U+1D7A3", "U+1D7A4",
    "U+1D7A5", "U+1D7A6", "U+1D7A7", "U+1D7A8", "U+1D7AA", "U+1D7AB", "U+1D7AC", "U+1D7AD", "U+1D7AE", "U+1D7AF",
    "U+1D7B0", "U+1D7B1", "U+1D7B2", "U+1D7B3", "U+1D7B4", "U+1D7B5", "U+1D7B6", "U+1D7B7", "U+1D7B8", "U+1D7B9",
    "U+1D7BA", "U+1D7BB", "U+1D7BC", "U+1D7BD", "U+1D7BE", "U+1D7BF", "U+1D7C0", "U+1D7C1", "U+1D7C2", "U+1D7C4",
    "U+1D7C5", "U+1D7C6", "U+1D7C7", "U+1D7C8", "U+1D7C9", "U+1D7CA", "U+1D7CB", "U+1DF00", "U+1DF01", "U+1DF02",
    "U+1DF03", "U+1DF04", "U+1DF05", "U+1DF06", "U+1DF07", "U+1DF08", "U+1DF09", "U+1DF0B", "U+1DF0C", "U+1DF0D",
    "U+1DF0E", "U+1DF0F", "U+1DF10", "U+1DF11", "U+1DF12", "U+1DF13", "U+1DF14", "U+1DF15", "U+1DF16", "U+1DF17",
    "U+1DF18", "U+1DF19", "U+1DF1A", "U+1DF1B", "U+1DF1C", "U+1DF1D", "U+1DF1E", "U+1E900", "U+1E901", "U+1E902",
    "U+1E903", "U+1E904", "U+1E905", "U+1E906", "U+1E907", "U+1E908", "U+1E909", "U+1E90A", "U+1E90B", "U+1E90C",
    "U+1E90D", "U+1E90E", "U+1E90F", "U+1E910", "U+1E911", "U+1E912", "U+1E913", "U+1E914", "U+1E915", "U+1E916",
    "U+1E917", "U+1E918", "U+1E919", "U+1E91A", "U+1E91B", "U+1E91C", "U+1E91D", "U+1E91E", "U+1E91F", "U+1E920",
    "U+1E921", "U+1E922", "U+1E923", "U+1E924", "U+1E925", "U+1E926", "U+1E927", "U+1E928", "U+1E929", "U+1E92A",
    "U+1E92B", "U+1E92C", "U+1E92D", "U+1E92E", "U+1E92F", "U+1E930", "U+1E931", "U+1E932", "U+1E933", "U+1E934",
    "U+1E935", "U+1E936", "U+1E937", "U+1E938", "U+1E939", "U+1E93A", "U+1E93B", "U+1E93C", "U+1E93D", "U+1E93E",
    "U+1E93F", "U+1E940", "U+1E941", "U+1E942", "U+1E943", "U+1F130", "U+1F131", "U+1F132", "U+1F133", "U+1F134",
    "U+1F135", "U+1F136", "U+1F137", "U+1F138", "U+1F139", "U+1F13A", "U+1F13B", "U+1F13C", "U+1F13D", "U+1F13E",
    "U+1F13F", "U+1F140", "U+1F141", "U+1F142", "U+1F143", "U+1F144", "U+1F145", "U+1F146", "U+1F147", "U+1F148",
    "U+1F149", "U+1F150", "U+1F151", "U+1F152", "U+1F153", "U+1F154", "U+1F155", "U+1F156", "U+1F157", "U+1F158",
    "U+1F159", "U+1F15A", "U+1F15B", "U+1F15C", "U+1F15D", "U+1F15E", "U+1F15F", "U+1F160", "U+1F161", "U+1F162",
    "U+1F163", "U+1F164", "U+1F165", "U+1F166", "U+1F167", "U+1F168", "U+1F169", "U+1F170", "U+1F171", "U+1F172",
    "U+1F173", "U+1F174", "U+1F175", "U+1F176", "U+1F177", "U+1F178", "U+1F179", "U+1F17A", "U+1F17B", "U+1F17C",
    "U+1F17D", "U+1F17E", "U+1F17F", "U+1F180", "U+1F181", "U+1F182", "U+1F183", "U+1F184", "U+1F185", "U+1F186",
    "U+1F187", "U+1F188", "U+1F189"
}

\* the case-ignorable characters: lower() looks past them on either side of
\* a capital sigma
CaseIgnorable == {
    "'", ".", ":", "^", "U+0060", "¨", "­", "¯", "´", "·",
    "¸", "ʰ", "ʱ", "ʲ", "ʳ", "ʴ", "ʵ", "ʶ", "ʷ", "ʸ",
    "ʹ", "ʺ", "ʻ", "ʼ", "ʽ", "ʾ", "ʿ", "ˀ", "ˁ", "˂",
    "˃", "˄", "˅", "ˆ", "ˇ", "ˈ", "ˉ", "ˊ", "ˋ", "ˌ",
    "ˍ", "ˎ", "ˏ", "ː", "ˑ", "˒", "˓", "˔", "˕", "˖",
    "˗", "˘", "˙", "˚", "˛", "˜", "˝", "˞", "˟", "ˠ",
    "ˡ", "ˢ", "ˣ", "ˤ", "˥", "˦", "˧", "˨", "˩", "˪",
    "˫", "ˬ", "˭", "ˮ", "˯", "˰", "˱", "˲", "˳", "˴",
    "˵", "˶", "˷", "˸", "˹", "˺", "˻", "˼", "˽", "˾",
    "˿", "U+0300", "U+0301", "U+0302", "U+0303", "U+0304", "U+0305", "U+0306", "U+0307", "U+0308",
    "U+0309", "U+030A", "U+030B", "U+030C", "U+030D", "U+030E", "U+030F", "U+0310", "U+0311", "U+0312",
    "U+0313", "U+0314", "U+0315", "U+0316", "U+0317", "U+0318", "U+0319", "U+031A", "U+031B", "U+031C",
    "U+031D", "U+031E", "U+031F", "U+0320", "U+0321", "U+0322", "U+0323", "U+0324", "U+0325", "U+0326",
    "U+0327", "U+0328", "U+0329", "U+032A", "U+032B", "U+032C", "U+032D", "U+032E", "U+032F", "U+0330",
    "U+0331", "U+0332", "U+0333", "U+0334", "U+0335", "U+0336", "U+0337", "U+0338", "U+0339", "U+033A",
    "U+033B", "U+033C", "U+033D", "U+033E", "U+033F", "U+0340", "U+0341", "U+0342", "U+0343", "U+0344",
    "U+0345", "U+0346", "U+0347", "U+0348", "U+0349", "U+034A", "U+034B", "U+034C", "U+034D", "U+034E",
    "U+034F", "U+0350", "U+0351", "U+0352", "U+0353", "U+0354", "U+0355", "U+0356", "U+0357", "U+0358",
    "U+0359", "U+035A", "U+035B", "U+035C", "U+035D", "U+035E", "U+035F", "U+0360", "U+0361", "U+0362",
    "U+0363", "U+0364", "U+0365", "U+0366", "U+0367", "U+0368", "U+0369", "U+036A", "U+036B", "U+036C",
    "U+036D", "U+036E", "U+036F", "U+0374", "U+0375", "U+037A", "΄", "΅", "·", "҃",
    "҄", "҅", "҆", "҇", "҈", "҉", "U+0559", "U+055F", "֑", "֒",
    "֓", "֔", "֕", "֖", "֗", "֘", "֙", "֚", "֛", "֜",
    "֝", "֞", "֟", "֠", "֡", "֢", "֣", "֤", "֥", "֦",
    "֧", "֨", "֩", "֪", "֫", "֬", "֭", "֮", "֯", "ְ",
    "ֱ", "ֲ", "ֳ", "ִ", "ֵ", "ֶ", "ַ", "ָ", "ֹ", "ֺ",
    "ֻ", "ּ", "ֽ", "ֿ", "ׁ", "ׂ", "ׄ", "ׅ", "ׇ", "״",
    "U+0600", "U+0601", "U+0602", "U+0603", "U+0604", "U+0605", "U+0610", "U+0611", "U+0612", "U+0613",
    "U+0614", "U+0615", "U+0616", "U+0617", "U+0618", "U+0619", "U+061A", "U+061C", "U+0640", "U+064B",
    "U+064C", "U+064D", "U+064E", "U+064F", "U+0650", "U+0651", "U+0652", "U+0653", "U+0654", "U+0655",
    "U+0656", "U+0657", "U+0658", "U+0659", "U+065A", "U+065B", "U+065C", "U+065D", "U+065E", "U+065F",
    "U+0670", "ۖ", "ۗ", "ۘ", "ۙ", "ۚ", "ۛ", "ۜ", "۝", "۟",
    "۠", "ۡ", "ۢ", "ۣ", "ۤ", "ۥ", "ۦ", "ۧ", "ۨ", "۪",
    "۫", "۬", "ۭ", "U+070F", "U+0711", "U+0730", "U+0731", "U+0732", "U+0733", "U+0734",
    "U+0735", "U+0736", "U+0737", "U+0738", "U+0739", "U+073A", "U+073B", "U+073C", "U+073D", "U+073E",
    "U+073F", "U+0740", "U+0741", "U+0742", "U+0743", "U+0744", "U+0745", "U+0746", "U+0747", "U+0748",
    "U+0749", "U+074A", "ަ", "ާ", "ި", "ީ", "ު", "ޫ", "ެ", "ޭ",
    "ޮ", "ޯ", "ް", "߫", "߬", "߭", "߮", "߯", "߰", "߱",
    "߲", "߳", "ߴ", "ߵ", "ߺ", "߽", "U+0816", "U+0817", "U+0818", "U+0819",
    "U+081A", "U+081B", "U+081C", "U+081D", "U+081E", "U+081F", "U+0820", "U+0821", "U+0822", "U+0823",
    "U+0824", "U+0825", "U+0826", "U+0827", "U+0828", "U+0829", "U+082A", "U+082B", "U+082C", "U+082D",
    "U+0859", "U+085A", "U+085B", "࢈", "࢐", "࢑", "࢘", "࢙", "࢚", "࢛",
    "࢜", "࢝", "࢞", "࢟", "ࣉ", "࣊", "࣋", "࣌", "࣍", "࣎",
    "࣏", "࣐", "࣑", "࣒", "࣓", "ࣔ", "ࣕ", "ࣖ", "ࣗ", "ࣘ",
    "ࣙ", "ࣚ", "ࣛ", "ࣜ", "ࣝ", "ࣞ", "ࣟ", "࣠", "࣡", "࣢",
    "ࣣ", "ࣤ", "ࣥ", "ࣦ", "ࣧ", "ࣨ", "ࣩ", "࣪", "࣫", "࣬",
    "࣭", "࣮", "࣯", "ࣰ", "ࣱ", "ࣲ", "ࣳ", "ࣴ", "ࣵ", "ࣶ",
    "ࣷ", "ࣸ", "ࣹ", "ࣺ", "ࣻ", "ࣼ", "ࣽ", "ࣾ", "ࣿ", "U+0900",
    "U+0901", "U+0902", "U+093A", "U+093C", "U+0941", "U+0942", "U+0943", "U+0944", "U+0945", "U+0946",
    "U+0947", "U+0948", "U+094D", "U+0951", "U+0952", "U+0953", "U+0954", "U+0955", "U+0956", "U+0957",
    "U+0962", "U+0963", "U+0971", "ঁ", "়", "ু", "ূ", "ৃ", "ৄ", "্",
    "ৢ", "ৣ", "৾", "U+0A01", "U+0A02", "U+0A3C", "U+0A41", "U+0A42", "U+0A47", "U+0A48",
    "U+0A4B", "U+0A4C", "U+0A4D", "U+0A51", "U+0A70", "U+0A71", "U+0A75", "ઁ", "ં", "઼",
    "ુ", "ૂ", "ૃ", "ૄ", "ૅ", "ે", "ૈ", "્", "ૢ", "ૣ",
    "ૺ", "ૻ", "ૼ", "૽", "૾", "૿", "U+0B01", "U+0B3C", "U+0B3F", "U+0B41",
    "U+0B42", "U+0B43", "U+0B44", "U+0B4D", "U+0B55", "U+0B56", "U+0B62", "U+0B63", "ஂ", "ீ",
    "்", "U+0C00", "U+0C04", "U+0C3C", "U+0C3E", "U+0C3F", "U+0C40", "U+0C46", "U+0C47", "U+0C48",
    "U+0C4A", "U+0C4B", "U+0C4C", "U+0C4D", "U+0C55", "U+0C56", "U+0C62", "U+0C63", "ಁ", "಼",
    "ಿ", "ೆ", "ೌ", "್", "ೢ", "ೣ", "U+0D00", "U+0D01", "U+0D3B", "U+0D3C",
    "U+0D41", "U+0D42", "U+0D43", "U+0D44", "U+0D4D", "U+0D62", "U+0D63", "ඁ", "්", "ි",
    "ී", "ු", "ූ", "U+0E31", "U+0E34", "U+0E35", "U+0E36", "U+0E37", "U+0E38", "U+0E39",
    "U+0E3A", "U+0E46", "U+0E47", "U+0E48", "U+0E49", "U+0E4A", "U+0E4B", "U+0E4C", "U+0E4D", "U+0E4E",
    "ັ", "ິ", "ີ", "ຶ", "ື", "ຸ", "ູ", "຺", "ົ", "ຼ",
    "ໆ", "່", "້", "໊", "໋", "໌", "ໍ", "U+0F18", "U+0F19", "U+0F35",
    "U+0F37", "U+0F39", "U+0F71", "U+0F72", "U+0F73", "U+0F74", "U+0F75", "U+0F76", "U+0F77", "U+0F78",
    "U+0F79", "U+0F7A", "U+0F7B", "U+0F7C", "U+0F7D", "U+0F7E", "ྀ", "ཱྀ", "ྂ", "ྃ",
    "྄", "྆", "྇", "ྍ", "ྎ", "ྏ", "ྐ", "ྑ", "ྒ", "ྒྷ",
    "ྔ", "ྕ", "ྖ", "ྗ", "ྙ", "ྚ", "ྛ", "ྜ", "ྜྷ", "ྞ",
    "ྟ", "ྠ", "ྡ", "ྡྷ", "ྣ", "ྤ", "ྥ", "ྦ", "ྦྷ", "ྨ",
    "ྩ", "ྪ", "ྫ", "ྫྷ", "ྭ", "ྮ", "ྯ", "ྰ", "ྱ", "ྲ",
    "ླ", "ྴ", "ྵ", "ྶ", "ྷ", "ྸ", "ྐྵ", "ྺ", "ྻ", "ྼ",
    "࿆", "U+102D", "U+102E", "U+102F", "U+1030", "U+1032", "U+1033", "U+1034", "U+1035", "U+1036",
    "U+1037", "U+1039", "U+103A", "U+103D", "U+103E", "U+1058", "U+1059", "U+105E", "U+105F", "U+1060",
    "U+1071", "U+1072", "U+1073", "U+1074", "ႂ", "ႅ", "ႆ", "ႍ", "ႝ", "ჼ",
    "U+135D", "U+135E", "U+135F", "U+1712", "U+1713", "U+1714", "U+1732", "U+1733", "U+1752", "U+1753",
    "U+1772", "U+1773", "឴", "឵", "ិ", "ី", "ឹ", "ឺ", "ុ", "ូ",
    "ួ", "ំ", "៉", "៊", "់", "៌", "៍", "៎", "៏", "័",
    "៑", "្", "៓", "ៗ", "៝", "U+180B", "U+180C", "U+180D", "U+180E", "U+180F",
    "U+1843", "ᢅ", "ᢆ", "ᢩ", "U+1920", "U+1921", "U+1922", "U+1927", "U+1928", "U+1932",
    "U+1939", "U+193A", "U+193B", "U+1A17", "U+1A18", "U+1A1B", "U+1A56", "U+1A58", "U+1A59", "U+1A5A",
    "U+1A5B", "U+1A5C", "U+1A5D", "U+1A5E", "U+1A60", "U+1A62", "U+1A65", "U+1A66", "U+1A67", "U+1A68",
    "U+1A69", "U+1A6A", "U+1A6B", "U+1A6C", "U+1A73", "U+1A74", "U+1A75", "U+1A76", "U+1A77", "U+1A78",
    "U+1A79", "U+1A7A", "U+1A7B", "U+1A7C", "U+1A7F", "ᪧ", "᪰", "᪱", "᪲", "᪳",
    "᪴", "᪵", "᪶", "᪷", "᪸", "᪹", "᪺", "᪻", "᪼", "᪽",
    "᪾", "ᪿ", "ᫀ", "᫁", "᫂", "᫃", "᫄", "᫅", "᫆", "᫇",
    "᫈", "᫉", "᫊", "᫋", "ᫌ", "ᫍ", "ᫎ", "U+1B00", "U+1B01", "U+1B02",
    "U+1B03", "U+1B34", "U+1B36", "U+1B37", "U+1B38", "U+1B39", "U+1B3A", "U+1B3C", "U+1B42", "U+1B6B",
    "U+1B6C", "U+1B6D", "U+1B6E", "U+1B6F", "U+1B70", "U+1B71", "U+1B72", "U+1B73", "ᮀ", "ᮁ",
    "ᮢ", "ᮣ", "ᮤ", "ᮥ", "ᮨ", "ᮩ", "᮫", "ᮬ", "ᮭ", "᯦",
    "ᯨ", "ᯩ", "ᯭ", "ᯯ", "ᯰ", "ᯱ", "U+1C2C", "U+1C2D", "U+1C2E", "U+1C2F",
    "U+1C30", "U+1C31", "U+1C32", "U+1C33", "U+1C36", "U+1C37", "U+1C78", "U+1C79", "U+1C7A", "U+1C7B",
    "U+1C7C", "U+1C7D", "᳐", "᳑", "᳒", "᳔", "᳕", "᳖", "᳗", "᳘",
    "᳙", "᳚", "᳛", "᳜", "᳝", "᳞", "᳟", "᳠", "᳢", "᳣",
    "᳤", "᳥", "᳦", "᳧", "᳨", "᳭", "᳴", "᳸", "᳹", "U+1D2C",
    "U+1D2D", "U+1D2E", "U+1D2F", "U+1D30", "U+1D31", "U+1D32", "U+1D33", "U+1D34", "U+1D35", "U+1D36",
    "U+1D37", "U+1D38", "U+1D39", "U+1D3A", "U+1D3B", "U+1D3C", "U+1D3D", "U+1D3E", "U+1D3F", "U+1D40",
    "U+1D41", "U+1D42", "U+1D43", "U+1D44", "U+1D45", "U+1D46", "U+1D47", "U+1D48", "U+1D49", "U+1D4A",
    "U+1D4B", "U+1D4C", "U+1D4D", "U+1D4E", "U+1D4F", "U+1D50", "U+1D51", "U+1D52", "U+1D53", "U+1D54",
    "U+1D55", "U+1D56", "U+1D57", "U+1D58", "U+1D59", "U+1D5A", "U+1D5B", "U+1D5C", "U+1D5D", "U+1D5E",
    "U+1D5F", "U+1D60", "U+1D61", "U+1D62", "U+1D63", "U+1D64", "U+1D65", "U+1D66", "U+1D67", "U+1D68",
    "U+1D69", "U+1D6A", "U+1D78", "ᶛ", "ᶜ", "ᶝ", "ᶞ", "ᶟ", "ᶠ", "ᶡ",
    "ᶢ", "ᶣ", "ᶤ", "ᶥ", "ᶦ", "ᶧ", "ᶨ", "ᶩ", "ᶪ", "ᶫ",
    "ᶬ", "ᶭ", "ᶮ", "ᶯ", "ᶰ", "ᶱ", "ᶲ", "ᶳ", "ᶴ", "ᶵ",
    "ᶶ", "ᶷ", "ᶸ", "ᶹ", "ᶺ", "ᶻ", "ᶼ", "ᶽ", "ᶾ", "ᶿ",
    "᷀", "᷁", "᷂", "᷃", "᷄", "᷅", "᷆", "᷇", "᷈", "᷉",
    "᷊", "᷋", "᷌", "᷍", "᷎", "᷏", "᷐", "᷑", "᷒", "ᷓ",
    "ᷔ", "ᷕ", "ᷖ", "ᷗ", "ᷘ", "ᷙ", "ᷚ", "ᷛ", "ᷜ", "ᷝ",
    "ᷞ", "ᷟ", "ᷠ", "ᷡ", "ᷢ", "ᷣ", "ᷤ", "ᷥ", "ᷦ", "ᷧ",
    "ᷨ", "ᷩ", "ᷪ", "ᷫ", "ᷬ", "ᷭ", "ᷮ", "ᷯ", "ᷰ", "ᷱ",
    "ᷲ", "ᷳ", "ᷴ", "᷵", "᷶", "᷷", "᷸", "᷹", "᷺", "᷻",
    "᷼", "᷽", "᷾", "᷿", "᾽", "᾿", "῀", "῁", "῍", "῎",
    "῏", "῝", "῞", "῟", "῭", "΅", "`", "´", "῾", "U+200B",
    "U+200C", "U+200D", "U+200E", "U+200F", "U+2018", "U+2019", "U+2024", "U+2027", "U+202A", "U+202B",
    "U+202C", "U+202D", "U+202E", "U+2060", "U+2061", "U+2062", "U+2063", "U+2064", "U+2066", "U+2067",
    "U+2068", "U+2069", "U+206A", "U+206B", "U+206C", "U+206D", "U+206E", "U+206F", "U+2071", "U+207F",
    "ₐ", "ₑ", "ₒ", "ₓ", "ₔ", "ₕ", "ₖ", "ₗ", "ₘ", "ₙ",
    "ₚ", "ₛ", "ₜ", "⃐", "⃑", "⃒", "⃓", "⃔", "⃕", "⃖",
    "⃗", "⃘", "⃙", "⃚", "⃛", "⃜", "⃝", "⃞", "⃟", "⃠",
    "⃡", "⃢", "⃣", "⃤", "⃥", "⃦", "⃧", "⃨", "⃩", "⃪",
    "⃫", "⃬", "⃭", "⃮", "⃯", "⃰", "U+2C7C", "U+2C7D", "⳯", "⳰",
    "⳱", "U+2D6F", "U+2D7F", "ⷠ", "ⷡ", "ⷢ", "ⷣ", "ⷤ", "ⷥ", "ⷦ",
    "ⷧ", "ⷨ", "ⷩ", "ⷪ", "ⷫ", "ⷬ", "ⷭ", "ⷮ", "ⷯ", "ⷰ",
    "ⷱ", "ⷲ", "ⷳ", "ⷴ", "ⷵ", "ⷶ", "ⷷ", "ⷸ", "ⷹ", "ⷺ",
    "ⷻ", "ⷼ", "ⷽ", "ⷾ", "ⷿ", "U+2E2F", "U+3005", "U+302A", "U+302B", "U+302C",
    "U+302D", "U+3031", "U+3032", "U+3033", "U+3034", "U+3035", "U+303B", "゙", "゚", "゛",
    "゜", "ゝ", "ゞ", "ー", "ヽ", "ヾ", "U+A015", "ꓸ", "ꓹ", "ꓺ",
    "ꓻ", "ꓼ", "ꓽ", "U+A60C", "U+A66F", "U+A670", "U+A671", "U+A672", "U+A674", "U+A675",
    "U+A676", "U+A677", "U+A678", "U+A679", "U+A67A", "U+A67B", "U+A67C", "U+A67D", "U+A67F", "ꚜ",
    "ꚝ", "ꚞ", "ꚟ", "꛰", "꛱", "U+A700", "U+A701", "U+A702", "U+A703", "U+A704",
    "U+A705", "U+A706", "U+A707", "U+A708", "U+A709", "U+A70A", "U+A70B", "U+A70C", "U+A70D", "U+A70E",
    "U+A70F", "U+A710", "U+A711", "U+A712", "U+A713", "U+A714", "U+A715", "U+A716", "U+A717", "U+A718",
    "U+A719", "U+A71A", "U+A71B", "U+A71C", "U+A71D", "U+A71E", "U+A71F", "U+A720", "U+A721", "U+A770",
    "ꞈ", "꞉", "꞊", "ꟲ", "ꟳ", "ꟴ", "ꟸ", "ꟹ", "U+A802", "U+A806",
    "U+A80B", "U+A825", "U+A826", "U+A82C", "꣄", "ꣅ", "꣠", "꣡", "꣢", "꣣",
    "꣤", "꣥", "꣦", "꣧", "꣨", "꣩", "꣪", "꣫", "꣬", "꣭",
    "꣮", "꣯", "꣰", "꣱", "ꣿ", "U+A926", "U+A927", "U+A928", "U+A929", "U+A92A",
    "U+A92B", "U+A92C", "U+A92D", "U+A947", "U+A948", "U+A949", "U+A94A", "U+A94B", "U+A94C", "U+A94D",
    "U+A94E", "U+A94F", "U+A950", "U+A951", "ꦀ", "ꦁ", "ꦂ", "꦳", "ꦶ", "ꦷ",
    "ꦸ", "ꦹ", "ꦼ", "ꦽ", "ꧏ", "ꧥ", "ꧦ", "U+AA29", "U+AA2A", "U+AA2B",
    "U+AA2C", "U+AA2D", "U+AA2E", "U+AA31", "U+AA32", "U+AA35", "U+AA36", "U+AA43", "U+AA4C", "U+AA70",
    "U+AA7C", "ꪰ", "ꪲ", "ꪳ", "ꪴ", "ꪷ", "ꪸ", "ꪾ", "꪿", "꫁",
    "ꫝ", "ꫬ", "ꫭ", "ꫳ", "ꫴ", "꫶", "U+AB5B", "U+AB5C", "U+AB5D", "U+AB5E",
    "U+AB5F", "U+AB69", "U+AB6A", "U+AB6B", "ꯥ", "ꯨ", "꯭", "U+FB1E", "﮲", "﮳",
    "﮴", "﮵", "﮶", "﮷", "﮸", "﮹", "﮺", "﮻", "﮼", "﮽",
    "﮾", "﮿", "﯀", "﯁", "﯂", "U+FE00", "U+FE01", "U+FE02", "U+FE03", "U+FE04",
    "U+FE05", "U+FE06", "U+FE07", "U+FE08", "U+FE09", "U+FE0A", "U+FE0B", "U+FE0C", "U+FE0D", "U+FE0E",
    "U+FE0F", "U+FE13", "U+FE20", "U+FE21", "U+FE22", "U+FE23", "U+FE24", "U+FE25", "U+FE26", "U+FE27",
    "U+FE28", "U+FE29", "U+FE2A", "U+FE2B", "U+FE2C", "U+FE2D", "U+FE2E", "U+FE2F", "U+FE52", "U+FE55",
    "﻿", "U+FF07", "U+FF0E", "U+FF1A", "U+FF3E", "U+FF40", "U+FF70", "ﾞ", "ﾟ", "￣",
    "￹", "￺", "￻", "U+101FD", "U+102E0", "U+10376", "U+10377", "U+10378", "U+10379", "U+1037A",
    "U+10780", "U+10781", "U+10782", "U+10783", "U+10784", "U+10785", "U+10787", "U+10788", "U+10789", "U+1078A",
    "U+1078B", "U+1078C", "U+1078D", "U+1078E", "U+1078F", "U+10790", "U+10791", "U+10792", "U+10793", "U+10794",
    "U+10795", "U+10796", "U+10797", "U+10798", "U+10799", "U+1079A", "U+1079B", "U+1079C", "U+1079D", "U+1079E",
    "U+1079F", "U+107A0", "U+107A1", "U+107A2", "U+107A3", "U+107A4", "U+107A5", "U+107A6", "U+107A7", "U+107A8",
    "U+107A9", "U+107AA", "U+107AB", "U+107AC", "U+107AD", "U+107AE", "U+107AF", "U+107B0", "U+107B2", "U+107B3",
    "U+107B4", "U+107B5", "U+107B6", "U+107B7", "U+107B8", "U+107B9", "U+107BA", "U+10A01", "U+10A02", "U+10A03",
    "U+10A05", "U+10A06", "U+10A0C", "U+10A0D", "U+10A0E", "U+10A0F", "U+10A38", "U+10A39", "U+10A3A", "U+10A3F",
    "U+10AE5", "U+10AE6", "U+10D24", "U+10D25", "U+10D26", "U+10D27", "U+10EAB", "U+10EAC", "U+10F46", "U+10F47",
    "U+10F48", "U+10F49", "U+10F4A", "U+10F4B", "U+10F4C", "U+10F4D", "U+10F4E", "U+10F4F", "U+10F50", "U+10F82",
    "U+10F83", "U+10F84", "U+10F85", "U+11001", "U+11038", "U+11039", "U+1103A", "U+1103B", "U+1103C", "U+1103D",
    "U+1103E", "U+1103F", "U+11040", "U+11041", "U+11042", "U+11043", "U+11044", "U+11045", "U+11046", "U+11070",
    "U+11073", "U+11074", "U+1107F", "U+11080", "U+11081", "U+110B3", "U+110B4", "U+110B5", "U+110B6", "U+110B9",
    "U+110BA", "U+110BD", "U+110C2", "U+110CD", "U+11100", "U+11101", "U+11102", "U+11127", "U+11128", "U+11129",
    "U+1112A", "U+1112B", "U+1112D", "U+1112E", "U+1112F", "U+11130", "U+11131", "U+11132", "U+11133", "U+11134",
    "U+11173", "U+11180", "U+11181", "U+111B6", "U+111B7", "U+111B8", "U+111B9", "U+111BA", "U+111BB", "U+111BC",
    "U+111BD", "U+111BE", "U+111C9", "U+111CA", "U+111CB", "U+111CC", "U+111CF", "U+1122F", "U+11230", "U+11231",
    "U+11234", "U+11236", "U+11237", "U+1123E", "U+112DF", "U+112E3", "U+112E4", "U+112E5", "U+112E6", "U+112E7",
    "U+112E8", "U+112E9", "U+112EA", "U+11300", "U+11301", "U+1133B", "U+1133C", "U+11340", "U+11366", "U+11367",
    "U+11368", "U+11369", "U+1136A", "U+1136B", "U+1136C", "U+11370", "U+11371", "U+11372", "U+11373", "U+11374",
    "U+11438", "U+11439", "U+1143A", "U+1143B", "U+1143C", "U+1143D", "U+1143E", "U+1143F", "U+11442", "U+11443",
    "U+11444", "U+11446", "U+1145E", "U+114B3", "U+114B4", "U+114B5", "U+114B6", "U+114B7", "U+114B8", "U+114BA",
    "U+114BF", "U+114C0", "U+114C2", "U+114C3", "U+115B2", "U+115B3", "U+115B4", "U+115B5", "U+115BC", "U+115BD",
    "U+115BF", "U+115C0", "U+115DC", "U+115DD", "U+11633", "U+11634", "U+11635", "U+11636", "U+11637", "U+11638",
    "U+11639", "U+1163A", "U+1163D", "U+1163F", "U+11640", "U+116AB", "U+116AD", "U+116B0", "U+116B1", "U+116B2",
    "U+116B3", "U+116B4", "U+116B5", "U+116B7", "U+1171D", "U+1171E", "U+1171F", "U+11722", "U+11723", "U+11724",
    "U+11725", "U+11727", "U+11728", "U+11729", "U+1172A", "U+1172B", "U+1182F", "U+11830", "U+11831", "U+11832",
    "U+11833", "U+11834", "U+11835", "U+11836", "U+11837", "U+11839", "U+1183A", "U+1193B", "U+1193C", "U+1193E",
    "U+11943", "U+119D4", "U+119D5", "U+119D6", "U+119D7", "U+119DA", "U+119DB", "U+119E0", "U+11A01", "U+11A02",
    "U+11A03", "U+11A04", "U+11A05", "U+11A06", "U+11A07", "U+11A08", "U+11A09", "U+11A0A", "U+11A33", "U+11A34",
    "U+11A35", "U+11A36", "U+11A37", "U+11A38", "U+11A3B", "U+11A3C", "U+11A3D", "U+11A3E", "U+11A47", "U+11A51",
    "U+11A52", "U+11A53", "U+11A54", "U+11A55", "U+11A56", "U+11A59", "U+11A5A", "U+11A5B", "U+11A8A", "U+11A8B",
    "U+11A8C", "U+11A8D", "U+11A8E", "U+11A8F", "U+11A90", "U+11A91", "U+11A92", "U+11A93", "U+11A94", "U+11A95",
    "U+11A96", "U+11A98", "U+11A99", "U+11C30", "U+11C31", "U+11C32", "U+11C33", "U+11C34", "U+11C35", "U+11C36",
    "U+11C38", "U+11C39", "U+11C3A", "U+11C3B", "U+11C3C", "U+11C3D", "U+11C3F", "U+11C92", "U+11C93", "U+11C94",
    "U+11C95", "U+11C96", "U+11C97", "U+11C98", "U+11C99", "U+11C9A", "U+11C9B", "U+11C9C", "U+11C9D", "U+11C9E",
    "U+11C9F", "U+11CA0", "U+11CA1", "U+11CA2", "U+11CA3", "U+11CA4", "U+11CA5", "U+11CA6", "U+11CA7", "U+11CAA",
    "U+11CAB", "U+11CAC", "U+11CAD", "U+11CAE", "U+11CAF", "U+11CB0", "U+11CB2", "U+11CB3", "U+11CB5", "U+11CB6",
    "U+11D31", "U+11D32", "U+11D33", "U+11D34", "U+11D35", "U+11D36", "U+11D3A", "U+11D3C", "U+11D3D", "U+11D3F",
    "U+11D40", "U+11D41", "U+11D42", "U+11D43", "U+11D44", "U+11D45", "U+11D47", "U+11D90", "U+11D91", "U+11D95",
    "U+11D97", "U+11EF3", "U+11EF4", "U+13430", "U+13431", "U+13432", "U+13433", "U+13434", "U+13435", "U+13436",
    "U+13437", "U+13438", "U+16AF0", "U+16AF1", "U+16AF2", "U+16AF3", "U+16AF4", "U+16B30", "U+16B31", "U+16B32",
    "U+16B33", "U+16B34", "U+16B35", "U+16B36", "U+16B40", "U+16B41", "U+16B42", "U+16B43", "U+16F4F", "U+16F8F",
    "U+16F90", "U+16F91", "U+16F92", "U+16F93", "U+16F94", "U+16F95", "U+16F96", "U+16F97", "U+16F98", "U+16F99",
    "U+16F9A", "U+16F9B", "U+16F9C", "U+16F9D", "U+16F9E", "U+16F9F", "U+16FE0", "U+16FE1", "U+16FE3", "U+16FE4",
    "U+1AFF0", "U+1AFF1", "U+1AFF2", "U+1AFF3", "U+1AFF5", "U+1AFF6", "U+1AFF7", "U+1AFF8", "U+1AFF9", "U+1AFFA",
    "U+1AFFB", "U+1AFFD", "U+1AFFE", "U+1BC9D", "U+1BC9E", "U+1BCA0", "U+1BCA1", "U+1BCA2", "U+1BCA3", "U+1CF00",
    "U+1CF01", "U+1CF02", "U+1CF03", "U+1CF04", "U+1CF05", "U+1CF06", "U+1CF07", "U+1CF08", "U+1CF09", "U+1CF0A",
    "U+1CF0B", "U+1CF0C", "U+1CF0D", "U+1CF0E", "U+1CF0F", "U+1CF10", "U+1CF11", "U+1CF12", "U+1CF13", "U+1CF14",
    "U+1CF15", "U+1CF16", "U+1CF17", "U+1CF18", "U+1CF19", "U+1CF1A", "U+1CF1B", "U+1CF1C", "U+1CF1D", "U+1CF1E",
    "U+1CF1F", "U+1CF20", "U+1CF21", "U+1CF22", "U+1CF23", "U+1CF24", "U+1CF25", "U+1CF26", "U+1CF27", "U+1CF28",
    "U+1CF29", "U+1CF2A", "U+1CF2B", "U+1CF2C", "U+1CF2D", "U+1CF30", "U+1CF31", "U+1CF32", "U+1CF33", "U+1CF34",
    "U+1CF35", "U+1CF36", "U+1CF37", "U+1CF38", "U+1CF39", "U+1CF3A", "U+1CF3B", "U+1CF3C", "U+1CF3D", "U+1CF3E",
    "U+1CF3F", "U+1CF40", "U+1CF41", "U+1CF42", "U+1CF43", "U+1CF44", "U+1CF45", "U+1CF46", "U+1D167", "U+1D168",
    "U+1D169", "U+1D173", "U+1D174", "U+1D175", "U+1D176", "U+1D177", "U+1D178", "U+1D179", "U+1D17A", "U+1D17B",
    "U+1D17C", "U+1D17D", "U+1D17E", "U+1D17F", "U+1D180", "U+1D181", "U+1D182", "U+1D185", "U+1D186", "U+1D187",
    "U+1D188", "U+1D189", "U+1D18A", "U+1D18B", "U+1D1AA", "U+1D1AB", "U+1D1AC", "U+1D1AD", "U+1D242", "U+1D243",
    "U+1D244", "U+1DA00", "U+1DA01", "U+1DA02", "U+1DA03", "U+1DA04", "U+1DA05", "U+1DA06", "U+1DA07", "U+1DA08",
    "U+1DA09", "U+1DA0A", "U+1DA0B", "U+1DA0C", "U+1DA0D", "U+1DA0E", "U+1DA0F", "U+1DA10", "U+1DA11", "U+1DA12",
    "U+1DA13", "U+1DA14", "U+1DA15", "U+1DA16", "U+1DA17", "U+1DA18", "U+1DA19", "U+1DA1A", "U+1DA1B", "U+1DA1C",
    "U+1DA1D", "U+1DA1E", "U+1DA1F", "U+1DA20", "U+1DA21", "U+1DA22", "U+1DA23", "U+1DA24", "U+1DA25", "U+1DA26",
    "U+1DA27", "U+1DA28", "U+1DA29", "U+1DA2A", "U+1DA2B", "U+1DA2C", "U+1DA2D", "U+1DA2E", "U+1DA2F", "U+1DA30",
    "U+1DA31", "U+1DA32", "U+1DA33", "U+1DA34", "U+1DA35", "U+1DA36", "U+1DA3B", "U+1DA3C", "U+1DA3D", "U+1DA3E",
    "U+1DA3F", "U+1DA40", "U+1DA41", "U+1DA42", "U+1DA43", "U+1DA44", "U+1DA45", "U+1DA46", "U+1DA47", "U+1DA48",
    "U+1DA49", "U+1DA4A", "U+1DA4B", "U+1DA4C", "U+1DA4D", "U+1DA4E", "U+1DA4F", "U+1DA50", "U+1DA51", "U+1DA52",
    "U+1DA53", "U+1DA54", "U+1DA55", "U+1DA56", "U+1DA57", "U+1DA58", "U+1DA59", "U+1DA5A", "U+1DA5B", "U+1DA5C",
    "U+1DA5D", "U+1DA5E", "U+1DA5F", "U+1DA60", "U+1DA61", "U+1DA62", "U+1DA63", "U+1DA64", "U+1DA65", "U+1DA66",
    "U+1DA67", "U+1DA68", "U+1DA69", "U+1DA6A", "U+1DA6B", "U+1DA6C", "U+1DA75", "U+1DA84", "U+1DA9B", "U+1DA9C",
    "U+1DA9D", "U+1DA9E", "U+1DA9F", "U+1DAA1", "U+1DAA2", "U+1DAA3", "U+1DAA4", "U+1DAA5", "U+1DAA6", "U+1DAA7",
    "U+1DAA8", "U+1DAA9", "U+1DAAA", "U+1DAAB", "U+1DAAC", "U+1DAAD", "U+1DAAE", "U+1DAAF", "U+1E000", "U+1E001",
    "U+1E002", "U+1E003", "U+1E004", "U+1E005", "U+1E006", "U+1E008", "U+1E009", "U+1E00A", "U+1E00B", "U+1E00C",
    "U+1E00D", "U+1E00E", "U+1E00F", "U+1E010", "U+1E011", "U+1E012", "U+1E013", "U+1E014", "U+1E015", "U+1E016",
    "U+1E017", "U+1E018", "U+1E01B", "U+1E01C", "U+1E01D", "U+1E01E", "U+1E01F", "U+1E020", "U+1E021", "U+1E023",
    "U+1E024", "U+1E026", "U+1E027", "U+1E028", "U+1E029", "U+1E02A", "U+1E130", "U+1E131", "U+1E132", "U+1E133",
    "U+1E134", "U+1E135", "U+1E136", "U+1E137", "U+1E138", "U+1E139", "U+1E13A", "U+1E13B", "U+1E13C", "U+1E13D",
    "U+1E2AE", "U+1E2EC", "U+1E2ED", "U+1E2EE", "U+1E2EF", "U+1E8D0", "U+1E8D1", "U+1E8D2", "U+1E8D3", "U+1E8D4",
    "U+1E8D5", "U+1E8D6", "U+1E944", "U+1E945", "U+1E946", "U+1E947", "U+1E948", "U+1E949", "U+1E94A", "U+1E94B",
    "U+1F3FB", "U+1F3FC", "U+1F3FD", "U+1F3FE", "U+1F3FF", "U+E0001", "U+E0020", "U+E0021", "U+E0022", "U+E0023",
    "U+E0024", "U+E0025", "U+E0026", "U+E0027", "U+E0028", "U+E0029", "U+E002A", "U+E002B", "U+E002C", "U+E002D",
    "U+E002E", "U+E002F", "U+E0030", "U+E0031", "U+E0032", "U+E0033", "U+E0034", "U+E0035", "U+E0036", "U+E0037",
    "U+E0038", "U+E0039", "U+E003A", "U+E003B", "U+E003C", "U+E003D", "U+E003E", "U+E003F", "U+E0040", "U+E0041",
    "U+E0042", "U+E0043", "U+E0044", "U+E0045", "U+E0046", "U+E0047", "U+E0048", "U+E0049", "U+E004A", "U+E004B",
    "U+E004C", "U+E004D", "U+E004E", "U+E004F", "U+E0050", "U+E0051", "U+E0052", "U+E0053", "U+E0054", "U+E0055",
    "U+E0056", "U+E0057", "U+E0058", "U+E0059", "U+E005A", "U+E005B", "U+E005C", "U+E005D", "U+E005E", "U+E005F",
    "U+E0060", "U+E0061", "U+E0062", "U+E0063", "U+E0064", "U+E0065", "U+E0066", "U+E0067", "U+E0068", "U+E0069",
    "U+E006A", "U+E006B", "U+E006C", "U+E006D", "U+E006E", "U+E006F", "U+E0070", "U+E0071", "U+E0072", "U+E0073",
    "U+E0074", "U+E0075", "U+E0076", "U+E0077", "U+E0078", "U+E0079", "U+E007A", "U+E007B", "U+E007C", "U+E007D",
    "U+E007E", "U+E007F", "U+E0100", "U+E0101", "U+E0102", "U+E0103", "U+E0104", "U+E0105", "U+E0106", "U+E0107",
    "U+E0108", "U+E0109", "U+E010A", "U+E010B", "U+E010C", "U+E010D", "U+E010E", "U+E010F", "U+E0110", "U+E0111",
    "U+E0112", "U+E0113", "U+E0114", "U+E0115", "U+E0116", "U+E0117", "U+E0118", "U+E0119", "U+E011A", "U+E011B",
    "U+E011C", "U+E011D", "U+E011E", "U+E011F", "U+E0120", "U+E0121", "U+E0122", "U+E0123", "U+E0124", "U+E0125",
    "U+E0126", "U+E0127", "U+E0128", "U+E0129", "U+E012A", "U+E012B", "U+E012C", "U+E012D", "U+E012E", "U+E012F",
    "U+E0130", "U+E0131", "U+E0132", "U+E0133", "U+E0134", "U+E0135", "U+E0136", "U+E0137", "U+E0138", "U+E0139",
    "U+E013A", "U+E013B", "U+E013C", "U+E013D", "U+E013E", "U+E013F", "U+E0140", "U+E0141", "U+E0142", "U+E0143",
    "U+E0144", "U+E0145", "U+E0146", "U+E0147", "U+E0148", "U+E0149", "U+E014A", "U+E014B", "U+E014C", "U+E014D",
    "U+E014E", "U+E014F", "U+E0150", "U+E0151", "U+E0152", "U+E0153", "U+E0154", "U+E0155", "U+E0156", "U+E0157",
    "U+E0158", "U+E0159", "U+E015A", "U+E015B", "U+E015C", "U+E015D", "U+E015E", "U+E015F", "U+E0160", "U+E0161",
    "U+E0162", "U+E0163", "U+E0164", "U+E0165", "U+E0166", "U+E0167", "U+E0168", "U+E0169", "U+E016A", "U+E016B",
    "U+E016C", "U+E016D", "U+E016E", "U+E016F", "U+E0170", "U+E0171", "U+E0172", "U+E0173", "U+E0174", "U+E0175",
    "U+E0176", "U+E0177", "U+E0178", "U+E0179", "U+E017A", "U+E017B", "U+E017C", "U+E017D", "U+E017E", "U+E017F",
    "U+E0180", "U+E0181", "U+E0182", "U+E0183", "U+E0184", "U+E0185", "U+E0186", "U+E0187", "U+E0188", "U+E0189",
    "U+E018A", "U+E018B", "U+E018C", "U+E018D", "U+E018E", "U+E018F", "U+E0190", "U+E0191", "U+E0192", "U+E0193",
    "U+E0194", "U+E0195", "U+E0196", "U+E0197", "U+E0198", "U+E0199", "U+E019A", "U+E019B", "U+E019C", "U+E019D",
    "U+E019E", "U+E019F", "U+E01A0", "U+E01A1", "U+E01A2", "U+E01A3", "U+E01A4", "U+E01A5", "U+E01A6", "U+E01A7",
    "U+E01A8", "U+E01A9", "U+E01AA", "U+E01AB", "U+E01AC", "U+E01AD", "U+E01AE", "U+E01AF", "U+E01B0", "U+E01B1",
    "U+E01B2", "U+E01B3", "U+E01B4", "U+E01B5", "U+E01B6", "U+E01B7", "U+E01B8", "U+E01B9", "U+E01BA", "U+E01BB",
    "U+E01BC", "U+E01BD", "U+E01BE", "U+E01BF", "U+E01C0", "U+E01C1", "U+E01C2", "U+E01C3", "U+E01C4", "U+E01C5",
    "U+E01C6", "U+E01C7", "U+E01C8", "U+E01C9", "U+E01CA", "U+E01CB", "U+E01CC", "U+E01CD", "U+E01CE", "U+E01CF",
    "U+E01D0", "U+E01D1", "U+E01D2", "U+E01D3", "U+E01D4", "U+E01D5", "U+E01D6", "U+E01D7", "U+E01D8", "U+E01D9",
    "U+E01DA", "U+E01DB", "U+E01DC", "U+E01DD", "U+E01DE", "U+E01DF", "U+E01E0", "U+E01E1", "U+E01E2", "U+E01E3",
    "U+E01E4", "U+E01E5", "U+E01E6", "U+E01E7", "U+E01E8", "U+E01E9", "U+E01EA", "U+E01EB", "U+E01EC", "U+E01ED",
    "U+E01EE", "U+E01EF"
}

RECURSIVE CasedBefore(_, _)
CasedBefore(text, i) ==
    IF i < 1 THEN FALSE
    ELSE IF text[i] \in CaseIgnorable THEN CasedBefore(text, i - 1)
    ELSE text[i] \in Cased

RECURSIVE CasedAfter(_, _)
CasedAfter(text, i) ==
    IF i > Len(text) THEN FALSE
    ELSE IF text[i] \in CaseIgnorable THEN CasedAfter(text, i + 1)
    ELSE text[i] \in Cased

\* a capital sigma becomes the final sigma when a cased character comes
\* before it and none comes after it
FinalSigma(text, i) == CasedBefore(text, i - 1) /\ ~CasedAfter(text, i + 1)

\* what the character at i becomes in text.lower()
LowerAt(text, i) ==
    IF text[i] = "Σ" THEN (IF FinalSigma(text, i) THEN <<"ς">> ELSE <<"σ">>)
    ELSE LowerChar(text[i])

RECURSIVE LowerFrom(_, _)
LowerFrom(text, i) ==
    IF i > Len(text) THEN <<>>
    ELSE LowerAt(text, i) \o LowerFrom(text, i + 1)

\* str.lower()
Lower(text) == LowerFrom(text, 1)

Punctuation == {".", ",", "!", "?", ";", ":", "(", ")"}

(***************************************************************************)
(* number_to_greek                                                         *)
(***************************************************************************)
basic_numbers(n) ==
    CASE n = 0 -> <<"μ", "η", "δ", "έ", "ν">>
      [] n = 1 -> <<"έ", "ν", "α">>
      [] n = 2 -> <<"δ", "ύ", "ο">>
      [] n = 3 -> <<"τ", "ρ", "ί", "α">>
      [] n = 4 -> <<"τ", "έ", "σ", "σ", "ε", "ρ", "α">>
      [] n = 5 -> <<"π", "έ", "ν", "τ", "ε">>
      [] n = 6 -> <<"έ", "ξ", "ι">>
      [] n = 7 -> <<"ε", "π", "τ", "ά">>
      [] n = 8 -> <<"ο", "κ", "τ", "ώ">>
      [] n = 9 -> <<"ε", "ν", "ν", "έ", "α">>
      [] n = 10 -> <<"δ", "έ", "κ", "α">>
      [] n = 11 -> <<"έ", "ν", "τ", "ε", "κ", "α">>
      [] n = 12 -> <<"δ", "ώ", "δ", "ε", "κ", "α">>
      [] n = 13 -> <<"δ", "ε", "κ", "α", "τ", "ρ", "ί", "α">>
      [] n = 14 -> <<"δ", "ε", "κ", "α", "τ", "έ", "σ", "σ", "ε", "ρ", "α">>
      [] n = 15 -> <<"δ", "ε", "κ", "α", "π", "έ", "ν", "τ", "ε">>
      [] n = 16 -> <<"δ", "ε", "κ", "α", "έ", "ξ", "ι">>
      [] n = 17 -> <<"δ", "ε", "κ", "α", "ε", "π", "τ", "ά">>
      [] n = 18 -> <<"δ", "ε", "κ", "α", "ο", "κ", "τ", "ώ">>
      [] n = 19 -> <<"δ", "ε", "κ", "α", "ε", "ν", "ν", "έ", "α">>
      [] n = 20 -> <<"ε", "ί", "κ", "ο", "σ", "ι">>
tens(n) ==
    CASE n = 30 -> <<"τ", "ρ", "ι", "ά", "ν", "τ", "α">>
      [] n = 40 -> <<"σ", "α", "ρ", "ά", "ν", "τ", "α">>
      [] n = 50 -> <<"π", "ε", "ν", "ή", "ν", "τ", "α">>
      [] n = 60 -> <<"ε", "ξ", "ή", "ν", "τ", "α">>
      [] n = 70 -> <<"ε", "β", "δ", "ο", "μ", "ή", "ν", "τ", "α">>
      [] n = 80 -> <<"ο", "γ", "δ", "ό", "ν", "τ", "α">>
      [] n = 90 -> <<"ε", "ν", "ε", "ν", "ή", "ν", "τ", "α">>
hundreds(n) ==
    CASE n = 100 -> <<"ε", "κ", "α", "τ", "ό">>
      [] n = 200 -> <<"δ", "ι", "α", "κ", "ό", "σ", "ι", "α">>
      [] n = 300 -> <<"τ", "ρ", "ι", "α", "κ", "ό", "σ", "ι", "α">>
      [] n = 400 -> <<"τ", "ε", "τ", "ρ", "α", "κ", "ό", "σ", "ι", "α">>
      [] n = 500 -> <<"π", "ε", "ν", "τ", "α", "κ", "ό", "σ", "ι", "α">>
      [] n = 600 -> <<"ε", "ξ", "α", "κ", "ό", "σ", "ι", "α">>
      [] n = 700 -> <<"ε", "π", "τ", "α", "κ", "ό", "σ", "ι", "α">>
      [] n = 800 -> <<"ο", "κ", "τ", "α", "κ", "ό", "σ", "ι", "α">>
      [] n = 900 -> <<"ε", "ν", "ν", "ι", "α", "κ", "ό", "σ", "ι", "α">>
\* basic_numbers without the entry for 0
MaxNumberDigits == 4

InBasicNumbers_from_one(n) == n \in 1..20
InBasicNumbers(n) == n \in 0..20
InTens(n) == n \in {30, 40, 50, 60, 70, 80, 90}
InHundreds(n) == n \in {100, 200, 300, 400, 500, 600, 700, 800, 900}

\* the digits of an integer literal: decimal digits of any script, with
\* single underscores allowed between two of them
IsIntBody(s) ==
    /\ s # <<>>
    /\ s[1] \in DecimalDigits
    /\ s[Len(s)] \in DecimalDigits
    /\ \A i \in 1..Len(s) :
           s[i] \in DecimalDigits \/ (s[i] = "_" /\ s[i - 1] # "_")

Unsigned(t) == IF t # <<>> /\ t[1] \in {"+", "-"} THEN Tail(t) ELSE t

\* sys.get_int_max_str_digits(): int() raises ValueError for a literal of
\* more digits, leading zeros counted, underscores and sign not
int_max_str_digits == 4300

DigitCount(s) == Cardinality({i \in 1..Len(s) : s[i] \in DecimalDigits})

\* int(num_str.strip()) succeeds: an integer literal with an optional sign and
\* no more digits than int() converts
IntParses(num_str) ==
    /\ IsIntBody(Unsigned(Strip(num_str)))
    /\ DigitCount(Unsigned(Strip(num_str))) <= int_max_str_digits

NotUnderscore(c) == c # "_"

DigitValuesOf(digits) == [i \in 1..Len(digits) |-> DigitValue(digits[i])]

\* the digit values of an integer literal, its underscores passed over
DigitValues(s) == DigitValuesOf(SelectSeq(s, NotUnderscore))

LeadingZeros(ds, n) == \A j \in 1..n : ds[j] = 0

\* a list of digit values without its leading zeros
Significant(ds) ==
    IF LeadingZeros(ds, Len(ds)) THEN <<>>
    ELSE SubSeq(ds, CHOOSE i \in 1..Len(ds) : ds[i] # 0 /\ LeadingZeros(ds, i - 1), Len(ds))

\* the digits of int(num_str.strip()) without its leading zeros
IntDigits(num_str) == Significant(DigitValues(Unsigned(Strip(num_str))))

IntValue(num_str) ==
    IF Strip(num_str)[1] = "-" THEN 0 - DecimalValue(IntDigits(num_str))
    ELSE DecimalValue(IntDigits(num_str))

Sp == <<" ">>

number_to_greek_int(num) ==
    IF num = 1000 THEN <<"χ", "ί", "λ", "ι", "α">>
    ELSE IF InBasicNumbers(num) THEN basic_numbers(num)
    ELSE IF InTens(num) THEN tens(num)
    ELSE IF InHundreds(num) THEN hundreds(num)
    ELSE IF 21 <= num /\ num <= 99 /\ 21 <= num /\ num <= 29
         THEN basic_numbers(20) \o Sp \o basic_numbers(num % 10)
    ELSE IF 21 <= num /\ num <= 99 /\ InTens((num \div 10) * 10)
                /\ InBasicNumbers(num % 10)
         THEN tens((num \div 10) * 10) \o Sp \o basic_numbers(num % 10)
    ELSE IF 101 <= num /\ num <= 999 /\ InHundreds((num \div 100) * 100)
         THEN LET h == hundreds((num \div 100) * 100)
                  remainder == num % 100
              IN  IF remainder = 0 THEN h
                  ELSE IF InBasicNumbers(remainder)
                       THEN h \o Sp \o basic_numbers(remainder)
                  ELSE IF InTens(remainder) THEN h \o Sp \o tens(remainder)
                  ELSE IF 21 <= remainder /\ remainder <= 29
                       THEN h \o Sp \o basic_numbers(20) \o Sp
                              \o basic_numbers(remainder % 10)
                  ELSE IF 30 <= remainder /\ remainder <= 99
                            /\ InTens((remainder \div 10) * 10)
                       THEN h \o Sp \o tens((remainder \div 10) * 10) \o Sp
                              \o basic_numbers(remainder % 10)
                  ELSE None
    ELSE None

\* an integer of more than MaxNumberDigits digits is beyond every key and
\* range of the function, which returns None for it as for any other
\* integer above 1000
number_to_greek(num_str) ==
    IF ~IntParses(num_str) THEN None
    ELSE IF Len(IntDigits(num_str)) > MaxNumberDigits THEN None
    ELSE number_to_greek_int(IntValue(num_str))

\* "if greek_num:" is false for None and for ""
Truthy(s) == s # None /\ s # <<>>

(***************************************************************************)
(* normalize_text                                                          *)
(***************************************************************************)
\* lines 24-30 (and 377-382, 492-497): a text that is a number is replaced by
\* its spelling when number_to_greek has one
numeral_substitution(text) ==
    LET text_stripped == Strip(text)
    IN  IF IsDigit(text_stripped) /\ Truthy(number_to_greek(text_stripped))
        THEN number_to_greek(text_stripped)
        ELSE text

remove_punctuation(text) == FilterOut(text, Punctuation)

\* lines 11-40 without the number conversion of lines 24-30
normalize_text_literal(text) ==
    IF text = <<>> THEN <<>>
    ELSE Strip(Join(Split(remove_greek_accents(Lower(remove_punctuation(text))))))

\* lines 11-40
normalize_text(text) ==
    IF text = <<>> THEN <<>>
    ELSE Strip(Join(Split(remove_greek_accents(
             Lower(remove_punctuation(numeral_substitution(text)))))))

(***************************************************************************)
(* normalize_greek_i_sound                                                 *)
(***************************************************************************)
greek_articles ==
    { <<"ο">>, <<"η">>, <<"τ", "ο">>, <<"ο", "ι">>, <<"τ", "α">>,
      <<"τ", "ο", "υ">>, <<"τ", "η", "ς">>, <<"τ", "ω", "ν">> }

\* lines 126-146 without the test for an article of lines 128-130
normalize_i_word_every_token(word) ==
    Replace1(Replace1(
        Replace2(Replace2(Replace2(word, "ο", "ι", "ι"), "ε", "ι", "ι"),
                 "υ", "ι", "ι"),
        "η", "ι"), "υ", "ι")

normalize_i_word(word) ==
    IF word \in greek_articles THEN word
    ELSE Replace1(Replace1(
             Replace2(Replace2(Replace2(word, "ο", "ι", "ι"), "ε", "ι", "ι"),
                      "υ", "ι", "ι"),
             "η", "ι"), "υ", "ι")

RECURSIVE normalize_i_words(_)
normalize_i_words(words) ==
    IF words = <<>> THEN <<>>
    ELSE <<normalize_i_word(words[1])>> \o normalize_i_words(Tail(words))

normalize_greek_i_sound(text) ==
    IF text = <<>> THEN text
    ELSE LET words == Split(text)
         IN  Join(normalize_i_words(words))

(***************************************************************************)
(* levenshtein_distance                                                    *)
(***************************************************************************)
Min3(a, b, c) == Min2(a, Min2(b, c))

\* the inner loop with a substitution cost of 1 for equal characters too
RECURSIVE LevRow_unit_substitution(_, _, _, _, _)
LevRow_unit_substitution(c1, s2, previous_row, current_row, j) ==
    IF j >= Len(s2) THEN current_row
    ELSE LET insertions == previous_row[j + 2] + 1
             deletions == current_row[j + 1] + 1
             substitutions == previous_row[j + 1] + 1
         IN  LevRow_unit_substitution(c1, s2, previous_row,
                    Append(current_row, Min3(insertions, deletions, substitutions)),
                    j + 1)

\* the inner loop: current_row after the columns j .. len(s2) - 1
RECURSIVE LevRow(_, _, _, _, _)
LevRow(c1, s2, previous_row, current_row, j) ==
    IF j >= Len(s2) THEN current_row
    ELSE LET insertions == previous_row[j + 2] + 1
             deletions == current_row[j + 1] + 1
             substitutions == previous_row[j + 1]
                                + (IF c1 # s2[j + 1] THEN 1 ELSE 0)
         IN  LevRow(c1, s2, previous_row,
                    Append(current_row, Min3(insertions, deletions, substitutions)),
                    j + 1)

\* the outer loop: previous_row after the rows i .. len(s1) - 1
\* list(range(n + 1))
RECURSIVE Range0(_)
Range0(n) == IF n = 0 THEN <<0>> ELSE Append(Range0(n - 1), n)

RECURSIVE LevRows(_, _, _, _)
LevRows(s1, s2, previous_row, i) ==
    IF i >= Len(s1) THEN previous_row
    ELSE LET current_row == LevRow(s1[i + 1], s2, previous_row, <<i + 1>>, 0)
         IN  IF Len(current_row) = Len(previous_row)
             THEN LevRows(s1, s2, current_row, i + 1)
             ELSE <<>>

\* lines 251-264: the body once len(s1) >= len(s2)
levenshtein_rows(s1, s2) ==
    IF Len(s2) = 0 THEN Len(s1)
    ELSE LET last == LevRows(s1, s2, Range0(Len(s2)), 0)
         IN  last[Len(last)]

\* lines 248-249: the recursive call with the arguments swapped runs the body
\* with the longer string first
levenshtein_distance(s1, s2) ==
    IF Len(s1) < Len(s2) THEN levenshtein_rows(s2, s1)
    ELSE levenshtein_rows(s1, s2)

(***************************************************************************)
(* word_similarity                                                         *)
(***************************************************************************)
\* lines 292-308 with min_len >= 4 for min_len >= 3
root_suffix_stage_long(w1, w2) ==
    LET suffix1 == IF Len(w1) >= 2 THEN Slice(w1, Len(w1) - 2, Len(w1)) ELSE w1
        suffix2 == IF Len(w2) >= 2 THEN Slice(w2, Len(w2) - 2, Len(w2)) ELSE w2
        root1 == IF Len(w1) > 2 THEN Slice(w1, 0, Len(w1) - 2) ELSE w1
        root2 == IF Len(w2) > 2 THEN Slice(w2, 0, Len(w2) - 2) ELSE w2
    IN  /\ Min2(Len(w1), Len(w2)) >= 4
        /\ suffix1 # suffix2
        /\ root1 = root2

\* lines 292-308: same root, different two-letter ending
root_suffix_stage(w1, w2) ==
    LET suffix1 == IF Len(w1) >= 2 THEN Slice(w1, Len(w1) - 2, Len(w1)) ELSE w1
        suffix2 == IF Len(w2) >= 2 THEN Slice(w2, Len(w2) - 2, Len(w2)) ELSE w2
        root1 == IF Len(w1) > 2 THEN Slice(w1, 0, Len(w1) - 2) ELSE w1
        root2 == IF Len(w2) > 2 THEN Slice(w2, 0, Len(w2) - 2) ELSE w2
    IN  /\ Min2(Len(w1), Len(w2)) >= 3
        /\ suffix1 # suffix2
        /\ root1 = root2

\* lines 312-322: the middles of the words differ by more than 30%
middle_stage(w1, w2) ==
    LET mid1 == IF Len(w1) > 2 THEN Slice(w1, 1, Len(w1) - 1) ELSE w1
        mid2 == IF Len(w2) > 2 THEN Slice(w2, 1, Len(w2) - 1) ELSE w2
    IN  /\ Min2(Len(w1), Len(w2)) >= 4
        /\ mid1 # <<>> /\ mid2 # <<>>
        /\ FLt(FSub(One, Float(levenshtein_distance(mid1, mid2),
                             Max2(Len(mid1), Len(mid2)))),
               Float(7, 10))

\* lines 324-326 without the max(0.0, ...)
middle_penalty_unfloored(w1, w2) ==
    FSub(FSub(One, Float(levenshtein_distance(w1, w2), Max2(Len(w1), Len(w2)))),
         Float(2, 10))

\* lines 324-326
middle_penalty(w1, w2) ==
    LET base_similarity == levenshtein_distance(w1, w2)
        max_len == Max2(Len(w1), Len(w2))
    IN  FMax(Zero, FSub(FSub(One, Float(base_similarity, max_len)), Float(2, 10)))

\* lines 339-345
RECURSIVE common_prefix(_, _)
common_prefix(w1, w2) ==
    IF w1 = <<>> \/ w2 = <<>> THEN 0
    ELSE IF w1[1] = w2[1] THEN 1 + common_prefix(Tail(w1), Tail(w2))
    ELSE 0

\* lines 329-361 with the prefix test of line 347 against len(word1) for min_len
levenshtein_fallback_first(w1, w2) ==
    LET max_len == Max2(Len(w1), Len(w2))
        min_len == Min2(Len(w1), Len(w2))
        distance == levenshtein_distance(w1, w2)
        similarity == FSub(One, Float(distance, max_len))
        floored ==
            IF /\ Abs(Len(w1) - Len(w2)) <= 1
               /\ FGe(Float(common_prefix(w1, w2), 1),
                      FMul(Float(Len(w1), 1), Float(8, 10)))
            THEN FMax(similarity, Float(7, 10))
            ELSE similarity
        prefix1 == Slice(w1, 0, 3)
        prefix2 == Slice(w2, 0, 3)
        penalised ==
            IF /\ min_len >= 4
               /\ prefix1 # prefix2
               /\ FLt(FSub(One, Float(levenshtein_distance(prefix1, prefix2), 3)),
                      Float(67, 100))
            THEN FMul(floored, Float(6, 10))
            ELSE floored
    IN  IF max_len = 0 THEN One ELSE FMax(Zero, penalised)

\* lines 329-348: the normalized edit distance with its floor of 0.7, for
\* words that differ
floor_adjusted_similarity(w1, w2) ==
    IF /\ Abs(Len(w1) - Len(w2)) <= 1
       /\ FGe(Float(common_prefix(w1, w2), 1),
              FMul(Float(Min2(Len(w1), Len(w2)), 1), Float(8, 10)))
    THEN FMax(FSub(One, Float(levenshtein_distance(w1, w2),
                            Max2(Len(w1), Len(w2)))),
              Float(7, 10))
    ELSE FSub(One, Float(levenshtein_distance(w1, w2), Max2(Len(w1), Len(w2))))

\* lines 329-361 with min_len >= 5 for min_len >= 4 at line 352
levenshtein_fallback_late_penalty(w1, w2) ==
    LET max_len == Max2(Len(w1), Len(w2))
        min_len == Min2(Len(w1), Len(w2))
        distance == levenshtein_distance(w1, w2)
        similarity == FSub(One, Float(distance, max_len))
        floored ==
            IF /\ Abs(Len(w1) - Len(w2)) <= 1
               /\ FGe(Float(common_prefix(w1, w2), 1),
                      FMul(Float(min_len, 1), Float(8, 10)))
            THEN FMax(similarity, Float(7, 10))
            ELSE similarity
        prefix1 == Slice(w1, 0, 3)
        prefix2 == Slice(w2, 0, 3)
        penalised ==
            IF /\ min_len >= 5
               /\ prefix1 # prefix2
               /\ FLt(FSub(One, Float(levenshtein_distance(prefix1, prefix2), 3)),
                      Float(67, 100))
            THEN FMul(floored, Float(6, 10))
            ELSE floored
    IN  IF max_len = 0 THEN One ELSE FMax(Zero, penalised)

\* lines 329-361 without the floor of line 348
levenshtein_fallback_no_floor(w1, w2) ==
    LET max_len == Max2(Len(w1), Len(w2))
        min_len == Min2(Len(w1), Len(w2))
        distance == levenshtein_distance(w1, w2)
        similarity == FSub(One, Float(distance, max_len))
        floored ==
            IF /\ Abs(Len(w1) - Len(w2)) <= 1
               /\ FGe(Float(common_prefix(w1, w2), 1),
                      FMul(Float(min_len, 1), Float(8, 10)))
            THEN similarity
            ELSE similarity
        prefix1 == Slice(w1, 0, 3)
        prefix2 == Slice(w2, 0, 3)
        penalised ==
            IF /\ min_len >= 4
               /\ prefix1 # prefix2
               /\ FLt(FSub(One, Float(levenshtein_distance(prefix1, prefix2), 3)),
                      Float(67, 100))
            THEN FMul(floored, Float(6, 10))
            ELSE floored
    IN  IF max_len = 0 THEN One ELSE FMax(Zero, penalised)

\* lines 329-361
levenshtein_fallback(w1, w2) ==
    LET max_len == Max2(Len(w1), Len(w2))
        min_len == Min2(Len(w1), Len(w2))
        distance == levenshtein_distance(w1, w2)
        similarity == FSub(One, Float(distance, max_len))
        floored ==
            IF /\ Abs(Len(w1) - Len(w2)) <= 1
               /\ FGe(Float(common_prefix(w1, w2), 1),
                      FMul(Float(min_len, 1), Float(8, 10)))
            THEN FMax(similarity, Float(7, 10))
            ELSE similarity
        prefix1 == Slice(w1, 0, 3)
        prefix2 == Slice(w2, 0, 3)
        penalised ==
            IF /\ min_len >= 4
               /\ prefix1 # prefix2
               /\ FLt(FSub(One, Float(levenshtein_distance(prefix1, prefix2), 3)),
                      Float(67, 100))
            THEN FMul(floored, Float(6, 10))
            ELSE floored
    IN  IF max_len = 0 THEN One ELSE FMax(Zero, penalised)

word_similarity(word1, word2) ==
    IF word1 = word2 THEN One
    ELSE LET word1_no_accents == remove_greek_accents(word1)
             word2_no_accents == remove_greek_accents(word2)
         IN  IF word1_no_accents = word2_no_accents THEN Float(95, 100)
             ELSE IF normalize_greek_i_sound(word1_no_accents)
                       = normalize_greek_i_sound(word2_no_accents)
                  THEN Float(92, 100)
             ELSE IF root_suffix_stage(word1_no_accents, word2_no_accents)
                  THEN Float(65, 100)
             ELSE IF middle_stage(word1_no_accents, word2_no_accents)
                  THEN middle_penalty(word1_no_accents, word2_no_accents)
             ELSE levenshtein_fallback(word1_no_accents, word2_no_accents)

(***************************************************************************)
(* compare_texts                                                           *)
(* A value the program keeps in a local variable is a parameter of the      *)
(* operator that models the code using it.                                  *)
(***************************************************************************)
\* lines 547-551 (and 604-608): the running <<best_similarity, best_match>>
\* after user_word scored similarity
better_match(similarity, user_word, best) ==
    IF FGt(similarity, best[1]) THEN <<similarity, user_word>> ELSE best

\* lines 542-551 (and 599-608): the best unclaimed user word for correct_word,
\* scanning user_words from index j on; <<best_similarity, best_match>>
RECURSIVE best_unclaimed(_, _, _, _, _)
best_unclaimed(user_ws, matched_words, correct_word, j, best) ==
    IF j > Len(user_ws) THEN best
    ELSE IF InList(user_ws[j], matched_words)
         THEN best_unclaimed(user_ws, matched_words, correct_word, j + 1, best)
    ELSE best_unclaimed(user_ws, matched_words, correct_word, j + 1,
                        better_match(word_similarity(user_ws[j], correct_word),
                                     user_ws[j], best))

\* lines 553-554 (and 610-611)
claim_match(matched_words, best_match) ==
    IF Truthy(best_match) THEN Append(matched_words, best_match)
    ELSE matched_words

\* lines 538-555 (and 595-612): total_similarity of the greedy matching of the
\* correct words from index i on
RECURSIVE greedy_total(_, _, _, _, _)
RECURSIVE greedy_claim(_, _, _, _, _, _)
greedy_claim(user_ws, correct_ws, i, matched_words, total_similarity, best) ==
    IF Len(best) = 2
    THEN greedy_total(user_ws, correct_ws, i + 1,
                      claim_match(matched_words, best[2]),
                      FAdd(total_similarity, best[1]))
    ELSE Zero

greedy_total(user_ws, correct_ws, i, matched_words, total_similarity) ==
    IF i > Len(correct_ws) THEN total_similarity
    ELSE greedy_claim(user_ws, correct_ws, i, matched_words, total_similarity,
                      best_unclaimed(user_ws, matched_words, correct_ws[i], 1,
                                     <<Zero, None>>))

\* lines 558 and 614 with the total divided by the length of the longer list
average_similarity_of_longer(user_ws, correct_ws) ==
    IF Len(correct_ws) > 0
    THEN FDivInt(greedy_total(user_ws, correct_ws, 1, <<>>, Zero),
                 Max2(Len(user_ws), Len(correct_ws)))
    ELSE Zero

\* lines 558 and 614
average_similarity(user_ws, correct_ws) ==
    IF Len(correct_ws) > 0
    THEN FDivInt(greedy_total(user_ws, correct_ws, 1, <<>>, Zero), Len(correct_ws))
    ELSE Zero

\* lines 561-592: the verdict on the content words; <<is_correct, final_similarity>>
main_words_verdict(main_similarity, articles_match) ==
    IF FGe(main_similarity, Float(85, 100)) /\ articles_match
    THEN <<TRUE, main_similarity>>
    ELSE IF FGe(main_similarity, Float(85, 100)) /\ ~articles_match
    THEN <<FALSE, FMul(main_similarity, Float(7, 10))>>
    ELSE IF FLt(main_similarity, Float(7, 10)) THEN <<FALSE, main_similarity>>
    ELSE IF FLt(main_similarity, Float(75, 100)) THEN <<FALSE, main_similarity>>
    ELSE IF articles_match
    THEN <<FGe(main_similarity, Float(85, 100)), main_similarity>>
    ELSE <<FALSE, FMul(main_similarity, Float(7, 10))>>

\* lines 615-616 (and 522-523): accepted from the threshold on
similarity_verdict(similarity, threshold) ==
    <<FGe(similarity, threshold), similarity>>

\* lines 526-533
main_words(ws) == FilterOut(ws, greek_articles)
articles(ws) == Filter(ws, greek_articles)

\* lines 536-616
word_level_verdict(user_ws, correct_ws) ==
    IF main_words(user_ws) # <<>> /\ main_words(correct_ws) # <<>>
    THEN main_words_verdict(
             average_similarity(main_words(user_ws), main_words(correct_ws)),
             articles(user_ws) = articles(correct_ws))
    ELSE similarity_verdict(average_similarity(user_ws, correct_ws), Float(8, 10))

\* lines 627-628 and 630-631
boost_to(final_similarity, similarity) ==
    FMax(final_similarity, FMul(similarity, Float(95, 100)))

\* lines 620-631: final_similarity after the whole-string comparison
string_boost(final_similarity, string_similarity, user_main_words, correct_main_words) ==
    IF user_main_words # <<>> /\ correct_main_words # <<>>
    THEN IF /\ FGe(word_similarity(user_main_words[1], correct_main_words[1]),
                   Float(7, 10))
            /\ FGt(string_similarity, Float(92, 100))
         THEN boost_to(final_similarity, string_similarity)
         ELSE final_similarity
    ELSE IF FGt(string_similarity, Float(9, 10))
         THEN boost_to(final_similarity, string_similarity)
         ELSE final_similarity

\* max(sims), sims non-empty
max_of(sims) == CHOOSE x \in sims : \A y \in sims : FGe(x, y)

\* max(word_similarity(uw, cw) for uw in us for cw in cs), us and cs non-empty
max_pair_similarity(us, cs) ==
    max_of({word_similarity(us[i], cs[j]) : i \in 1..Len(us), j \in 1..Len(cs)})

\* lines 645-654 without the assignments to is_correct of lines 650-654
main_pair_boost_keeps_verdict(verdict, main_max_sim, articles_match) ==
    IF FGt(main_max_sim, Float(92, 100))
    THEN <<verdict[1], boost_to(verdict[2], main_max_sim)>>
    ELSE verdict

\* lines 645-654: the best pair of content words decides
main_pair_boost(verdict, main_max_sim, articles_match) ==
    IF FGt(main_max_sim, Float(92, 100))
    THEN <<IF FGe(main_max_sim, Float(92, 100)) /\ articles_match THEN TRUE
           ELSE IF FGe(main_max_sim, Float(92, 100)) /\ ~articles_match THEN FALSE
           ELSE verdict[1],
           boost_to(verdict[2], main_max_sim)>>
    ELSE verdict

\* lines 657-665: no content words on one side, the best pair of any words
any_pair_boost(verdict, max_word_sim) ==
    IF FGt(max_word_sim, Float(92, 100))
    THEN <<IF FGe(max_word_sim, Float(92, 100)) THEN TRUE ELSE verdict[1],
           boost_to(verdict[2], max_word_sim)>>
    ELSE verdict

\* lines 636-665: <<is_correct, final_similarity>> after the best-pair boost
pair_boost(verdict, user_ws, correct_ws) ==
    IF ~(Len(user_ws) > 0 /\ Len(correct_ws) > 0) THEN verdict
    ELSE IF main_words(user_ws) # <<>> /\ main_words(correct_ws) # <<>>
    THEN main_pair_boost(verdict,
                         max_pair_similarity(main_words(user_ws),
                                             main_words(correct_ws)),
                         articles(user_ws) = articles(correct_ws))
    ELSE any_pair_boost(verdict, max_pair_similarity(user_ws, correct_ws))

\* lines 671-674
final_gate(verdict) ==
    IF verdict[1] THEN <<FGe(verdict[2], Float(82, 100)), verdict[2]>> ELSE verdict

\* lines 519-523 with the threshold lowered to the 0.7 that word_similarity
\* gives words of nearly the same length
whole_string_verdict_loose(user_normalized, correct_normalized) ==
    similarity_verdict(word_similarity(user_normalized, correct_normalized),
                       Float(7, 10))

\* lines 519-523: a side without tokens
whole_string_verdict(user_normalized, correct_normalized) ==
    similarity_verdict(word_similarity(user_normalized, correct_normalized),
                       Float(8, 10))

\* lines 618-631: the verdict with final_similarity after the string boost
string_boosted(verdict, user_normalized, correct_normalized, user_ws, correct_ws) ==
    <<verdict[1],
      string_boost(verdict[2],
                   word_similarity(user_normalized, correct_normalized),
                   main_words(user_ws), main_words(correct_ws))>>

\* lines 525-674, user_ws and correct_ws the tokens of the normalized texts
word_level_tokens(user_normalized, correct_normalized, user_ws, correct_ws) ==
    final_gate(
        pair_boost(
            string_boosted(word_level_verdict(user_ws, correct_ws),
                           user_normalized, correct_normalized,
                           user_ws, correct_ws),
            user_ws, correct_ws))

\* lines 515-674
word_level_result(user_normalized, correct_normalized) ==
    word_level_tokens(user_normalized, correct_normalized,
                      Split(user_normalized), Split(correct_normalized))

\* lines 499-674 with the test of lines 512-513 before that of lines 508-509
compare_normalized_canonical_first(user_normalized, correct_normalized) ==
    IF normalize_greek_i_sound(user_normalized)
         = normalize_greek_i_sound(correct_normalized)
    THEN <<TRUE, Float(98, 100)>>
    ELSE IF Len(Split(user_normalized)) = 0 \/ Len(Split(correct_normalized)) = 0
         THEN whole_string_verdict(user_normalized, correct_normalized)
    ELSE word_level_result(user_normalized, correct_normalized)

\* lines 499-674, on the normalized texts
compare_normalized(user_normalized, correct_normalized) ==
    IF user_normalized = correct_normalized THEN <<TRUE, One>>
    ELSE IF normalize_greek_i_sound(user_normalized)
              = normalize_greek_i_sound(correct_normalized)
         THEN <<TRUE, Float(98, 100)>>
    ELSE IF Len(Split(user_normalized)) = 0 \/ Len(Split(correct_normalized)) = 0
         THEN whole_string_verdict(user_normalized, correct_normalized)
    ELSE word_level_result(user_normalized, correct_normalized)

\* lines 492-674: compare_texts without the test of lines 488-489
compare_texts_unguarded(user, correct) ==
    compare_normalized(normalize_text(numeral_substitution(user)),
                       normalize_text(correct))

\* the returned tuple (is_correct, similarity_score)
compare_texts(user, correct) ==
    IF user = <<>> THEN <<FALSE, Zero>>
    ELSE compare_normalized(normalize_text(numeral_substitution(user)),
                            normalize_text(correct))

(***************************************************************************)
(* compare_texts_detailed.  Indices (user_idx, correct_idx, position) count *)
(* from 0 as in the program; the word at index j of a list ws is ws[j + 1]. *)
(***************************************************************************)
\* lines 419-423 (and 457-460): the running <<best similarity, best index>>
\* after the word at index j scored similarity
better_index(similarity, j, best) ==
    IF FGt(similarity, best[1]) THEN <<similarity, j>> ELSE best

\* lines 413-423: the best word of the window, scanning from index j on;
\* <<best_similarity, best_match_idx>>
RECURSIVE window_best(_, _, _, _, _)
window_best(user_ws, correct_word, j, search_end, best) ==
    IF j >= search_end \/ j >= Len(user_ws) THEN best
    ELSE window_best(user_ws, correct_word, j + 1, search_end,
                     better_index(word_similarity(user_ws[j + 1], correct_word),
                                  j, best))

\* line 410
search_start(uidx) == Max2(0, uidx - 1)
\* line 411 with a window one word longer
search_end_wider(user_ws, uidx) == Min2(Len(user_ws), uidx + 5)
\* line 411
search_end(user_ws, uidx) == Min2(Len(user_ws), uidx + 4)

\* an entry of the mistakes list
mistake(position, recognized, correct, similarity) ==
    [position |-> position, recognized |-> recognized, correct |-> correct,
     similarity |-> similarity]

\* lines 425-446 with mistakes.insert(0, ...) for mistakes.append(...)
align_match_prepend(user_ws, correct_word, cidx, uidx, ms, best_similarity, best_match_idx) ==
    IF FGe(best_similarity, Float(8, 10)) /\ best_match_idx # NoIdx
    THEN <<best_match_idx + 1, ms>>
    ELSE IF best_match_idx # NoIdx /\ FGt(best_similarity, Float(5, 10))
    THEN <<best_match_idx + 1,
           <<mistake(cidx, user_ws[best_match_idx + 1], correct_word,
                     best_similarity)>> \o ms>>
    ELSE <<uidx, <<mistake(cidx, None, correct_word, Zero)>> \o ms>>

\* lines 425-446 with the missing word recorded with best_similarity
align_match_keeps_similarity(user_ws, correct_word, cidx, uidx, ms, best_similarity, best_match_idx) ==
    IF FGe(best_similarity, Float(8, 10)) /\ best_match_idx # NoIdx
    THEN <<best_match_idx + 1, ms>>
    ELSE IF best_match_idx # NoIdx /\ FGt(best_similarity, Float(5, 10))
    THEN <<best_match_idx + 1,
           Append(ms, mistake(cidx, user_ws[best_match_idx + 1], correct_word,
                              best_similarity))>>
    ELSE <<uidx, Append(ms, mistake(cidx, None, correct_word, best_similarity))>>

\* lines 425-446 with user_idx moved on after a missing word
align_match_skips_missing(user_ws, correct_word, cidx, uidx, ms, best_similarity, best_match_idx) ==
    IF FGe(best_similarity, Float(8, 10)) /\ best_match_idx # NoIdx
    THEN <<best_match_idx + 1, ms>>
    ELSE IF best_match_idx # NoIdx /\ FGt(best_similarity, Float(5, 10))
    THEN <<best_match_idx + 1,
           Append(ms, mistake(cidx, user_ws[best_match_idx + 1], correct_word,
                              best_similarity))>>
    ELSE <<uidx + 1, Append(ms, mistake(cidx, None, correct_word, Zero))>>

\* lines 425-446: what the iteration does with the best word of the window;
\* <<user_idx, mistakes>>
align_match(user_ws, correct_word, cidx, uidx, ms, best_similarity, best_match_idx) ==
    IF FGe(best_similarity, Float(8, 10)) /\ best_match_idx # NoIdx
    THEN <<best_match_idx + 1, ms>>
    ELSE IF best_match_idx # NoIdx /\ FGt(best_similarity, Float(5, 10))
    THEN <<best_match_idx + 1,
           Append(ms, mistake(cidx, user_ws[best_match_idx + 1], correct_word,
                              best_similarity))>>
    ELSE <<uidx, Append(ms, mistake(cidx, None, correct_word, Zero))>>

\* lines 413-423, for the window of user index uidx
window_match(user_ws, correct_word, uidx) ==
    window_best(user_ws, correct_word, search_start(uidx),
                search_end(user_ws, uidx), <<Zero, NoIdx>>)

\* the unpacking of <<best_similarity, best_match_idx>>
align_best(user_ws, correct_word, cidx, uidx, ms, best) ==
    align_match(user_ws, correct_word, cidx, uidx, ms, best[1], best[2])

\* lines 408-448: one iteration of the reference loop; <<user_idx, mistakes>>
align_step(user_ws, correct_ws, cidx, uidx, ms) ==
    align_best(user_ws, correct_ws[cidx + 1], cidx, uidx, ms,
               window_match(user_ws, correct_ws[cidx + 1], uidx))

\* lines 454-460: the reference word nearest to user_word, scanning from index
\* k on; <<best_sim, nearest_correct_idx>>
RECURSIVE nearest_correct(_, _, _, _)
nearest_correct(user_word, correct_ws, k, best) ==
    IF k >= Len(correct_ws) THEN best
    ELSE nearest_correct(user_word, correct_ws, k + 1,
                         better_index(word_similarity(user_word,
                                                      correct_ws[k + 1]),
                                      k, best))

\* lines 462-468 with best_sim < 0.95 for best_sim < 0.8
extra_mistake_loose(ms, user_word, correct_ws, best_sim, nearest_correct_idx) ==
    IF FLt(best_sim, Float(95, 100))
    THEN Append(ms, mistake(IF nearest_correct_idx # NoIdx
                            THEN nearest_correct_idx
                            ELSE Len(correct_ws),
                            user_word, None, best_sim))
    ELSE ms

\* lines 462-468: the mistakes after an extra word
extra_mistake(ms, user_word, correct_ws, best_sim, nearest_correct_idx) ==
    IF FLt(best_sim, Float(8, 10))
    THEN Append(ms, mistake(IF nearest_correct_idx # NoIdx
                            THEN nearest_correct_idx
                            ELSE Len(correct_ws),
                            user_word, None, best_sim))
    ELSE ms

\* the unpacking of <<best_sim, nearest_correct_idx>>
extra_nearest(ms, user_word, correct_ws, best) ==
    extra_mistake(ms, user_word, correct_ws, best[1], best[2])

\* lines 451-468: the mistakes after the words left over from index j on
RECURSIVE extra_words(_, _, _, _)
RECURSIVE extra_words_next(_, _, _, _)
extra_words_next(user_ws, correct_ws, j, ms) ==
    IF Len(ms) >= 0 THEN extra_words(user_ws, correct_ws, j, ms) ELSE <<>>

extra_words(user_ws, correct_ws, j, ms) ==
    IF j >= Len(user_ws) THEN ms
    ELSE extra_words_next(user_ws, correct_ws, j + 1,
                          extra_nearest(ms, user_ws[j + 1], correct_ws,
                                        nearest_correct(user_ws[j + 1],
                                                        correct_ws, 0,
                                                        <<Zero, NoIdx>>)))

\* lines 471-473
word_ratio(total_words, mistake_count) ==
    IF total_words > 0 THEN Float(total_words - mistake_count, total_words)
    ELSE Zero

aggregate_similarity(user_ws, correct_ws, ms) ==
    word_ratio(Max2(Len(user_ws), Len(correct_ws)), Len(ms))

\* lines 476-478 with the acceptance rule similarity >= 0.5 alone
detailed_verdict_loose(similarity, ms) ==
    <<FGe(similarity, Float(5, 10)), similarity, ms>>

\* lines 476-478
detailed_verdict(similarity, ms) ==
    <<FGe(similarity, Float(85, 100)) /\ Len(ms) = 0, similarity, ms>>

\* lines 471-478
detailed_aggregate(user_ws, correct_ws, ms) ==
    detailed_verdict(aggregate_similarity(user_ws, correct_ws, ms), ms)

\* lines 450-478: the returned tuple (is_correct, similarity, mistakes)
detailed_result(user_ws, correct_ws, uidx, ms) ==
    detailed_aggregate(user_ws, correct_ws,
                       extra_words(user_ws, correct_ws, uidx, ms))

\* lines 381-398, on the normalized texts: TRUE when the call returns before
\* tokenizing
normalized_match(user_normalized, correct_normalized) ==
    \/ user_normalized = correct_normalized
    \/ normalize_greek_i_sound(user_normalized)
         = normalize_greek_i_sound(correct_normalized)

\* lines 373-398: TRUE when the call returns before tokenizing
detailed_returns_early(user, correct) ==
    \/ user = <<>>
    \/ normalized_match(normalize_text(numeral_substitution(user)),
                        normalize_text(correct))

detailed_early_result(user, correct) ==
    IF user = <<>> THEN <<FALSE, Zero, <<>>>>
    ELSE IF normalize_text(numeral_substitution(user)) = normalize_text(correct)
    THEN <<TRUE, One, <<>>>>
    ELSE <<TRUE, Float(98, 100), <<>>>>

\* lines 408-448: the reference loop from correct index cidx on;
\* <<user_idx, mistakes>>
RECURSIVE align_loop(_, _, _, _, _)
RECURSIVE align_loop_next(_, _, _, _)
align_loop_next(user_ws, correct_ws, cidx, step) ==
    IF Len(step[2]) >= 0
    THEN align_loop(user_ws, correct_ws, cidx, step[1], step[2])
    ELSE <<>>

align_loop(user_ws, correct_ws, cidx, uidx, ms) ==
    IF cidx >= Len(correct_ws) THEN <<uidx, ms>>
    ELSE align_loop_next(user_ws, correct_ws, cidx + 1,
                         align_step(user_ws, correct_ws, cidx, uidx, ms))

\* the unpacking of <<user_idx, mistakes>> when the loop has ended
detailed_after_loop(user_ws, correct_ws, loop) ==
    detailed_result(user_ws, correct_ws, loop[1], loop[2])

\* lines 400-478
detailed_tokens(user_ws, correct_ws) ==
    detailed_after_loop(user_ws, correct_ws,
                        align_loop(user_ws, correct_ws, 0, 0, <<>>))

compare_texts_detailed(user, correct) ==
    IF detailed_returns_early(user, correct)
    THEN detailed_early_result(user, correct)
    ELSE detailed_tokens(Split(normalize_text(numeral_substitution(user))),
                         Split(normalize_text(correct)))

(***************************************************************************)
(* The calls.  Every specification binds the arguments of one call in its   *)
(* initial state and then runs the body of the called function.             *)
(***************************************************************************)
MaxTokens == 2
VocabSize == 5
MaxWordLen == 3
MaxRawLen == 3

\* raw tokens as the recognizer or the vocabulary may deliver them; the
\* first VocabSize of them are in use
Vocabulary ==
    << <<"ο">>, <<"ο", "ι">>, <<"ο", "υ">>,
       <<"φ", "ί", "λ", "ο", "ς">>, <<"φ", "ι", "λ", "η">>, <<".">>,
       <<"η">>, <<"ν", "ε", "ρ", "ό">> >>

Tokens == {Vocabulary[i] : i \in 1..Min2(VocabSize, Len(Vocabulary))}

\* the texts of at most n tokens, single spaces between the tokens
RECURSIVE TextsOf(_)
TextsOf(n) ==
    IF n = 0 THEN {<<>>}
    ELSE LET shorter == TextsOf(n - 1)
         IN  shorter \cup Tokens
                \cup {t \o Sp \o w : t \in shorter \ {<<>>}, w \in Tokens}

\* the strings of at most n characters of the alphabet A
RECURSIVE StringsOf(_, _)
StringsOf(A, n) ==
    IF n = 0 THEN {<<>>}
    ELSE LET shorter == StringsOf(A, n - 1)
         IN  shorter \cup {Append(t, c) : t \in shorter, c \in A}

\* words for word_similarity: every short string of an alphabet with an
\* accented letter, two letters of the same sound and a consonant, and
\* longer words that reach the stages for words of four letters and more
WordAlphabet == {"ή", "η", "ι", "κ"}

LongWords ==
    { <<"φ", "ί", "λ", "ο", "ς">>, <<"φ", "ι", "λ", "ο", "ς">>,
      <<"φ", "ι", "λ", "η">>, <<"φ", "ι", "λ", "η", "ς">>,
      <<"φ", "υ", "λ", "ο", "ς">>,
      <<"κ", "α", "λ", "ο", "ς">>, <<"κ", "α", "κ", "ο", "ς">>,
      <<"κ", "α", "λ", "α">>, <<"γ", "α", "λ", "α">>, <<"ν", "ε", "ρ", "ο">>,
      <<"μ", "η", "τ", "ε", "ρ", "α">>, <<"μ", "η", "τ", "ε", "ρ", "α", "ς">>,
      <<"ο", " ", "φ", "ι", "λ", "ο", "ς">> }

Words == StringsOf(WordAlphabet, MaxWordLen) \cup LongWords

\* raw texts, character by character: a letter, an accented letter, a
\* capital, digits, punctuation and the space
RawAlphabet == {"ο", "ί", "Η", "Σ", "1", "5", ".", " ", "\t"}

RawStrings == StringsOf(RawAlphabet, MaxRawLen)

Idle == /\ user_words = <<>> /\ correct_words = <<>>
        /\ user_idx = 0 /\ correct_idx = 0 /\ mistakes = <<>>

UnchangedLoop == UNCHANGED <<user_words, correct_words, user_idx, correct_idx,
                             mistakes>>

(***************************************************************************)
(* compare_texts(user_text, correct_text)                                  *)
(***************************************************************************)
InitPhrase ==
    /\ fn = "compare_texts"
    /\ pc = "call"
    /\ user_text \in TextsOf(MaxTokens)
    /\ correct_text \in TextsOf(MaxTokens)
    /\ result = NoResult
    /\ Idle

CompareTexts ==
    /\ fn = "compare_texts" /\ pc = "call"
    /\ result' = compare_texts(user_text, correct_text)
    /\ pc' = "done"
    /\ UNCHANGED <<fn, user_text, correct_text>>
    /\ UnchangedLoop

NextPhrase == CompareTexts

SpecPhrase == InitPhrase /\ [][NextPhrase]_vars

(***************************************************************************)
(* compare_texts_detailed(user_text, correct_text), one action for each     *)
(* iteration of its reference loop                                          *)
(***************************************************************************)
InitDetailed ==
    /\ fn = "compare_texts_detailed"
    /\ pc = "call"
    /\ user_text \in TextsOf(MaxTokens)
    /\ correct_text \in TextsOf(MaxTokens)
    /\ result = NoResult
    /\ Idle

\* lines 373-398
DetailedReturnEarly ==
    /\ fn = "compare_texts_detailed" /\ pc = "call"
    /\ detailed_returns_early(user_text, correct_text)
    /\ result' = detailed_early_result(user_text, correct_text)
    /\ pc' = "done"
    /\ UNCHANGED <<fn, user_text, correct_text>>
    /\ UnchangedLoop

\* lines 401-405
DetailedTokenize ==
    /\ fn = "compare_texts_detailed" /\ pc = "call"
    /\ ~detailed_returns_early(user_text, correct_text)
    /\ user_words' = Split(normalize_text(numeral_substitution(user_text)))
    /\ correct_words' = Split(normalize_text(correct_text))
    /\ mistakes' = <<>>
    /\ user_idx' = 0
    /\ correct_idx' = 0
    /\ pc' = "loop"
    /\ UNCHANGED <<fn, user_text, correct_text, result>>

\* lines 408-448
DetailedLoopStep ==
    /\ fn = "compare_texts_detailed" /\ pc = "loop"
    /\ correct_idx < Len(correct_words)
    /\ \E step \in {align_step(user_words, correct_words, correct_idx, user_idx,
                               mistakes)} :
           /\ user_idx' = step[1]
           /\ mistakes' = step[2]
    /\ correct_idx' = correct_idx + 1
    /\ UNCHANGED <<fn, pc, user_text, correct_text, user_words, correct_words,
                   result>>

\* lines 450-478
DetailedFinish ==
    /\ fn = "compare_texts_detailed" /\ pc = "loop"
    /\ correct_idx >= Len(correct_words)
    /\ result' = detailed_result(user_words, correct_words, user_idx, mistakes)
    /\ mistakes' = result'[3]
    /\ pc' = "done"
    /\ UNCHANGED <<fn, user_text, correct_text, user_words, correct_words,
                   user_idx, correct_idx>>

NextDetailed ==
    \/ DetailedReturnEarly
    \/ DetailedTokenize
    \/ DetailedLoopStep
    \/ DetailedFinish

SpecDetailed == InitDetailed /\ [][NextDetailed]_vars

(***************************************************************************)
(* word_similarity(word1, word2): user_text is word1, correct_text is word2 *)
(***************************************************************************)
InitWord ==
    /\ fn = "word_similarity"
    /\ pc = "call"
    /\ user_text \in Words
    /\ correct_text \in Words
    /\ result = NoResult
    /\ Idle

WordSimilarity ==
    /\ fn = "word_similarity" /\ pc = "call"
    /\ result' = word_similarity(user_text, correct_text)
    /\ pc' = "done"
    /\ UNCHANGED <<fn, user_text, correct_text>>
    /\ UnchangedLoop

NextWord == WordSimilarity

SpecWord == InitWord /\ [][NextWord]_vars

(***************************************************************************)
(* normalize_text(text), and normalize_text of what it returned: user_text  *)
(* is the argument of the call                                              *)
(***************************************************************************)
InitNormalize ==
    /\ fn = "normalize_text"
    /\ pc = "call"
    /\ user_text \in RawStrings
    /\ correct_text = <<>>
    /\ result = NoResult
    /\ Idle

NormalizeText ==
    /\ fn = "normalize_text" /\ pc = "call"
    /\ result' = normalize_text(user_text)
    /\ pc' = "done"
    /\ UNCHANGED <<fn, user_text, correct_text>>
    /\ UnchangedLoop

\* the caller passes the returned string to normalize_text again
NormalizeAgain ==
    /\ fn = "normalize_text" /\ pc = "done"
    /\ user_text' = result
    /\ result' = normalize_text(result)
    /\ pc' = "renormalized"
    /\ UNCHANGED <<fn, correct_text>>
    /\ UnchangedLoop

NextNormalize == NormalizeText \/ NormalizeAgain

SpecNormalize == InitNormalize /\ [][NextNormalize]_vars

(***************************************************************************)
(* f(s, s) for the three functions of the identity property                 *)
(***************************************************************************)
InitIdentity ==
    /\ fn \in {"word_similarity", "compare_texts", "compare_texts_detailed"}
    /\ pc = "call"
    /\ user_text \in RawStrings \ {<<>>}
    /\ correct_text = user_text
    /\ result = NoResult
    /\ Idle

\* the whole call of compare_texts_detailed
CompareTextsDetailed ==
    /\ fn = "compare_texts_detailed" /\ pc = "call"
    /\ result' = compare_texts_detailed(user_text, correct_text)
    /\ pc' = "done"
    /\ UNCHANGED <<fn, user_text, correct_text>>
    /\ UnchangedLoop

NextIdentity == WordSimilarity \/ CompareTexts \/ CompareTextsDetailed

SpecIdentity == InitIdentity /\ [][NextIdentity]_vars

(***************************************************************************)
(* compare_texts_detailed for a reference sentence and a candidate that     *)
(* differs from it in one token: substituted, dropped or added              *)
(***************************************************************************)
MaxEditTokens == 5

\* normalized sentences, token by token
ExampleSentences ==
    << << <<"ε", "γ", "ω">>, <<"β", "λ", "ε", "π", "ω">>, <<"τ", "ο", "ν">>,
          <<"φ", "ι", "λ", "ο">> >>,
       << <<"η">>, <<"μ", "η", "τ", "ε", "ρ", "α">>, <<"δ", "ι", "α", "β", "α", "ζ", "ε", "ι">>,
          <<"τ", "ο">>, <<"β", "ι", "β", "λ", "ι", "ο">>, <<"τ", "ω", "ρ", "α">> >>,
       << <<"φ", "ι", "λ", "η">>, <<"φ", "ι", "λ", "ο">> >>,
       << <<"τ", "ο">>, <<"π", "α", "ι", "δ", "ι">>, <<"κ", "α", "ι">>,
          <<"τ", "ο">>, <<"σ", "κ", "υ", "λ", "ι">> >> >>

\* the runs of consecutive tokens of a sentence
References ==
    {Slice(ExampleSentences[k], a, b) :
        k \in 1..Len(ExampleSentences), a \in 0..MaxEditTokens,
        b \in 1..MaxEditTokens + 1}
    \ {<<>>}

\* the tokens a recognizer delivers in place of, or next to, the right ones
EditWords ==
    { <<"φ", "ι", "λ", "η">>,
      <<"φ", "ι", "λ", "α">>,
      <<"τ", "ο">>,
      <<"ο">> }

\* the token lists one edit away from ws
OneEdit(ws) ==
    {[ws EXCEPT ![i] = x] : i \in 1..Len(ws), x \in EditWords}
    \cup {Slice(ws, 0, i - 1) \o Slice(ws, i, Len(ws)) : i \in 1..Len(ws)}
    \cup {Slice(ws, 0, k) \o <<x>> \o Slice(ws, k, Len(ws)) :
              k \in 0..Len(ws), x \in EditWords}

InitEdit ==
    /\ fn = "compare_texts_detailed"
    /\ pc = "call"
    /\ \E ws \in References :
           /\ Len(ws) <= MaxEditTokens
           /\ correct_text = Join(ws)
           /\ \E us \in OneEdit(ws) : user_text = Join(us)
    /\ result = NoResult
    /\ Idle

SpecEdit == InitEdit /\ [][NextDetailed]_vars

(***************************************************************************)
(* both graders for a candidate of at most one character, the empty string  *)
(* among them, and any reference                                            *)
(***************************************************************************)
InitEmpty ==
    /\ fn \in {"compare_texts", "compare_texts_detailed"}
    /\ pc = "call"
    /\ user_text \in StringsOf(RawAlphabet, 1)
    /\ correct_text \in RawStrings
    /\ result = NoResult
    /\ Idle

NextEmpty == CompareTexts \/ CompareTextsDetailed

SpecEmpty == InitEmpty /\ [][NextEmpty]_vars

(***************************************************************************)
(* compare_texts for two texts with the same letters, accented or not       *)
(***************************************************************************)
MaxAccentLen == 3

AccentAlphabet == {"ε", "έ", "γ", "ω", "ώ"}

InitAccent ==
    /\ fn = "compare_texts"
    /\ pc = "call"
    /\ user_text \in StringsOf(AccentAlphabet, MaxAccentLen)
    /\ correct_text \in StringsOf(AccentAlphabet, MaxAccentLen)
    /\ remove_greek_accents(user_text) = remove_greek_accents(correct_text)
    /\ result = NoResult
    /\ Idle

SpecAccent == InitAccent /\ [][NextPhrase]_vars

(***************************************************************************)
(* number_to_greek(num_str): user_text is num_str                           *)
(***************************************************************************)
MaxNumber == 1500

DigitChar(d) == <<"0", "1", "2", "3", "4", "5", "6", "7", "8", "9">>[d + 1]

\* str(n) for n >= 0
RECURSIVE DecimalString(_)
DecimalString(n) ==
    IF n < 10 THEN <<DigitChar(n)>>
    ELSE DecimalString(n \div 10) \o <<DigitChar(n % 10)>>

\* n zeros
ZeroDigits(n) == [i \in 1..n |-> "0"]

\* texts that are no plain number: empty, blank, words, a decimal point, two
\* numbers, numbers with white space, a sign, a leading zero or underscores,
\* digits of another script, a superscript, numbers of many digits, and a
\* five with as many leading zeros as int() converts and with one more
OtherNumberStrings ==
    { <<>>, <<" ">>, <<"α">>, <<"δ", "έ", "κ", "α">>, <<"1", ".", "5">>,
      <<"1", " ", "5">>, <<" ", "1", "5", " ">>, <<"+", "1", "5">>, <<"0", "1", "5">>,
      <<"1", "5", "0", "0", "α">>, <<"\t", "1", "5", "\n">>,
      <<"1", "_", "5">>, <<"1", "_", "0", "0", "0">>, <<"2", "_", "1">>,
      <<"1", "_", "5", "_", "0", "0">>, <<"-", "1", "_", "5">>,
      <<"1", "_", "_", "5">>, <<"_", "1", "5">>, <<"1", "5", "_">>,
      <<"߁", "߅">>, <<"U+0661", "U+0665">>, <<"U+2003", "1", "5">>,
      <<"²">>, <<"1", "²">>, <<"+">>, <<"+", " ", "1">>,
      ZeroDigits(int_max_str_digits - 1) \o <<"5">>,
      ZeroDigits(int_max_str_digits) \o <<"5">>,
      <<"0", "0", "0", "0", "0", "0", "1", "5">>,
      <<"2", "1", "4", "7", "4", "8", "3", "6", "4", "8">>,
      <<"9", "9", "9", "9", "9", "9", "9", "9", "9", "9", "9", "9">> }

NumberStrings ==
    {DecimalString(n) : n \in 0..MaxNumber}
    \cup {<<"-">> \o DecimalString(n) : n \in 0..MaxNumber}
    \cup OtherNumberStrings

InitNumber ==
    /\ fn = "number_to_greek"
    /\ pc = "call"
    /\ user_text \in NumberStrings
    /\ correct_text = <<>>
    /\ result = NoResult
    /\ Idle

NumberToGreek ==
    /\ fn = "number_to_greek" /\ pc = "call"
    /\ result' = number_to_greek(user_text)
    /\ pc' = "done"
    /\ UNCHANGED <<fn, user_text, correct_text>>
    /\ UnchangedLoop

NextNumber == NumberToGreek

SpecNumber == InitNumber /\ [][NextNumber]_vars

(***************************************************************************)
(* normalize_greek_i_sound called on its own, for short texts of the       *)
(* letters of the articles ο, η, το, οι, του, της and blanks               *)
(***************************************************************************)
MaxISoundLen == 4

ISoundAlphabet == {"η", "υ", "ο", "ι", "τ", "ς", " "}

InitISound ==
    /\ fn = "normalize_greek_i_sound"
    /\ pc = "call"
    /\ user_text \in StringsOf(ISoundAlphabet, MaxISoundLen)
    /\ correct_text = <<>>
    /\ result = NoResult
    /\ Idle

NormalizeGreekISound ==
    /\ fn = "normalize_greek_i_sound" /\ pc = "call"
    /\ result' = normalize_greek_i_sound(user_text)
    /\ pc' = "done"
    /\ UNCHANGED <<fn, user_text, correct_text>>
    /\ UnchangedLoop

NextISound == NormalizeGreekISound

SpecISound == InitISound /\ [][NextISound]_vars

(***************************************************************************)
(* levenshtein_distance called on its own, for two short strings over      *)
(* three letters                                                           *)
(***************************************************************************)
MaxLevLen == 3

LevAlphabet == {"α", "β", "γ"}

InitLevenshtein ==
    /\ fn = "levenshtein_distance"
    /\ pc = "call"
    /\ user_text \in StringsOf(LevAlphabet, MaxLevLen)
    /\ correct_text \in StringsOf(LevAlphabet, MaxLevLen)
    /\ result = NoResult
    /\ Idle

LevenshteinDistance ==
    /\ fn = "levenshtein_distance" /\ pc = "call"
    /\ result' = levenshtein_distance(user_text, correct_text)
    /\ pc' = "done"
    /\ UNCHANGED <<fn, user_text, correct_text>>
    /\ UnchangedLoop

NextLevenshtein == LevenshteinDistance

SpecLevenshtein == InitLevenshtein /\ [][NextLevenshtein]_vars

(***************************************************************************)
(* compare_texts_detailed for two runs of tokens of the sentences, the      *)
(* candidate often longer or shorter than the reference                     *)
(***************************************************************************)
InitWindow ==
    /\ fn = "compare_texts_detailed"
    /\ pc = "call"
    /\ \E us \in References, ws \in References :
           /\ Len(us) <= MaxEditTokens /\ Len(ws) <= MaxEditTokens
           /\ user_text = Join(us)
           /\ correct_text = Join(ws)
    /\ result = NoResult
    /\ Idle

SpecWindow == InitWindow /\ [][NextDetailed]_vars

(***************************************************************************)
(* Properties.  result is the tuple the call returned: result[1] is         *)
(* is_correct, result[2] the similarity and, for compare_texts_detailed,    *)
(* result[3] the list of mistakes.                                          *)
(***************************************************************************)
user_normalized_text == normalize_text(numeral_substitution(user_text))
correct_normalized_text == normalize_text(correct_text)

\* C1: when compare_texts returns is_correct = True, the similarity it returns
\* is at least 0.82, on every return path.
C1_AcceptedAtLeast082 ==
    (pc = "done" /\ result[1]) => FGe(result[2], Float(82, 100))

\* compare_texts accepted texts that are equal neither normalized nor in
\* their canonical forms: the word-level path accepted
C1_AcceptedByWords ==
    /\ pc = "done" /\ result[1]
    /\ ~normalized_match(user_normalized_text, correct_normalized_text)

\* C2: when compare_texts_detailed returns is_correct = True, the similarity
\* it returns is at least 0.85 and the list of mistakes is empty.
C2_DetailedAcceptedClean ==
    (pc = "done" /\ result[1])
        => FGe(result[2], Float(85, 100)) /\ result[3] = <<>>

\* compare_texts_detailed accepted after its reference loop ran
C2_AcceptedAfterLoop ==
    /\ pc = "done" /\ result[1]
    /\ correct_words # <<>> /\ correct_idx = Len(correct_words)

\* C3: when both normalized texts have a content word and their sequences of
\* articles differ, compare_texts returns is_correct = False.
C3_ArticleMismatchRejected ==
    (/\ pc = "done"
     /\ main_words(Split(user_normalized_text)) # <<>>
     /\ main_words(Split(correct_normalized_text)) # <<>>
     /\ articles(Split(user_normalized_text))
          # articles(Split(correct_normalized_text)))
        => ~result[1]

\* C4: when both texts have content words and main_similarity is below 0.75,
\* compare_texts returns is_correct = False.
C4_LowMainSimilarityRejected ==
    (/\ pc = "done"
     /\ user_text # <<>>
     /\ ~normalized_match(user_normalized_text, correct_normalized_text)
     /\ main_words(Split(user_normalized_text)) # <<>>
     /\ main_words(Split(correct_normalized_text)) # <<>>
     /\ FLt(average_similarity(main_words(Split(user_normalized_text)),
                               main_words(Split(correct_normalized_text))),
            Float(75, 100)))
        => ~result[1]

\* C5: the similarity compare_texts_detailed returns is in [0, 1].
C5_DetailedSimilarityInUnitInterval ==
    pc = "done" => FGe(result[2], Zero) /\ FLe(result[2], One)

\* C6: the positions in the list of mistakes compare_texts_detailed returns
\* never decrease in list order, the records of extra words included.
C6_PositionsNonDecreasing ==
    pc = "done"
        => \A i, j \in 1..Len(result[3]) :
               i < j => result[3][i].position <= result[3][j].position

\* C6, amended: the positions of the records of the reference loop (those
\* that name a correct word) never decrease in list order, while the loop
\* runs and in the returned list.
C6_LoopPositionsNonDecreasing ==
    \A i, j \in 1..Len(mistakes) :
        (i < j /\ mistakes[i].correct # None /\ mistakes[j].correct # None)
            => mistakes[i].position <= mistakes[j].position

\* the returned list has two records of the reference loop and then the
\* record of an extra word whose position is lower
C6_ExtraWordBehind ==
    /\ pc = "done"
    /\ Len(mistakes) >= 3
    /\ mistakes[1].correct # None /\ mistakes[2].correct # None
    /\ mistakes[3].correct = None
    /\ mistakes[3].position < mistakes[2].position

\* C7: normalize_text(normalize_text(s)) = normalize_text(s) for every s.
C7_NormalizeIdempotent ==
    pc = "renormalized" => result = user_text

\* C8: word_similarity(a, b) = word_similarity(b, a).
C8_WordSimilaritySymmetric ==
    pc = "done" => result = word_similarity(correct_text, user_text)

\* words of different lengths scored by the edit-distance fallback at its
\* floor of 0.7
C8_FallbackFloor ==
    /\ pc = "done"
    /\ Len(user_text) # Len(correct_text)
    /\ result = Float(7, 10)

\* C9: for a non-empty s, word_similarity(s, s) = 1.0, compare_texts(s, s) =
\* (True, 1.0) and compare_texts_detailed(s, s) = (True, 1.0, []).
C9_Identity ==
    pc = "done"
        => result = CASE fn = "word_similarity" -> One
                      [] fn = "compare_texts" -> <<TRUE, One>>
                      [] fn = "compare_texts_detailed" -> <<TRUE, One, <<>>>>

\* compare_texts_detailed returned for a text of digits
C9_DigitsGraded ==
    /\ pc = "done"
    /\ fn = "compare_texts_detailed"
    /\ IsDigit(user_text)

\* C10: word_similarity returns a value in [0, 1] on every return path.
C10_WordSimilarityInUnitInterval ==
    pc = "done" => FGe(result, Zero) /\ FLe(result, One)

\* the middle-segment penalty path returned its floor
C10_MiddlePenaltyFloor ==
    /\ pc = "done"
    /\ middle_stage(remove_greek_accents(user_text),
                    remove_greek_accents(correct_text))
    /\ result = Zero

\* C11: when compare_texts_detailed accepts after its reference loop ran,
\* every reference token was matched with a similarity of at least 0.8 and
\* every candidate token was matched to a reference token, so the candidate
\* has neither more nor fewer tokens than the reference: it has as many
\* tokens and they pair up in order with a similarity of at least 0.8.
C11_AcceptedTokenForToken ==
    (/\ pc = "done" /\ result[1]
     /\ correct_words # <<>> /\ correct_idx = Len(correct_words))
        => /\ Len(user_words) = Len(correct_words)
           /\ \A i \in 1..Len(correct_words) :
                  FGe(word_similarity(user_words[i], correct_words[i]),
                      Float(8, 10))

\* C12: tokens are compared in their positions: when the candidate is an
\* accepted candidate (here the reference itself) with two distinct content
\* words of a similarity of at most 0.5 swapped, compare_texts does not
\* return (True, 1.0) for it.
C12_SwappedNotPerfect ==
    (/\ pc = "done"
     /\ compare_texts(correct_text, correct_text)[1]
     /\ Len(Split(correct_normalized_text)) = 2
     /\ main_words(Split(correct_normalized_text))
          = Split(correct_normalized_text)
     /\ FLe(word_similarity(Split(correct_normalized_text)[1],
                            Split(correct_normalized_text)[2]), Float(1, 2))
     /\ Split(user_normalized_text)
          = << Split(correct_normalized_text)[2],
               Split(correct_normalized_text)[1] >>)
        => result # <<TRUE, One>>

\* C13: every record of the mistakes list has one of three shapes: a missing
\* word (recognized None, correct the reference word of its position,
\* similarity 0.0), an extra word (correct None, recognized a candidate
\* word, similarity below 0.8) or a substitution (recognized a candidate
\* word, correct the reference word of its position, similarity above 0.5
\* and below 0.8); no record has None in both fields.
C13_MistakeShapes ==
    \A i \in 1..Len(mistakes) :
        \/ /\ mistakes[i].recognized = None
           /\ mistakes[i].correct = correct_words[mistakes[i].position + 1]
           /\ mistakes[i].similarity = Zero
        \/ /\ mistakes[i].correct = None
           /\ InList(mistakes[i].recognized, user_words)
           /\ FLt(mistakes[i].similarity, Float(8, 10))
        \/ /\ InList(mistakes[i].recognized, user_words)
           /\ mistakes[i].correct # None
           /\ mistakes[i].correct = correct_words[mistakes[i].position + 1]
           /\ FGt(mistakes[i].similarity, Float(5, 10))
           /\ FLt(mistakes[i].similarity, Float(8, 10))

\* the returned list holds a substitution, then a missing word, then an
\* extra word
C13_ThreeShapes ==
    /\ pc = "done"
    /\ Len(mistakes) = 3
    /\ mistakes[1].recognized # None /\ mistakes[1].correct # None
    /\ mistakes[2].recognized = None
    /\ mistakes[3].correct = None

\* C14: when candidate and reference have as many tokens and agree in all of
\* them but the one of index i, whose similarity to the reference token is
\* above 0.5 and below 0.8, and no other candidate token of the search
\* window scores higher against that reference token, compare_texts_detailed
\* rejects with exactly one mistake: the substitution at position i.
C14_OneSubstitution ==
    (pc = "done" /\ Len(user_words) = Len(correct_words))
        => \A i \in 0..Len(correct_words) - 1 :
               (/\ \A j \in 0..Len(correct_words) - 1 :
                       j # i => user_words[j + 1] = correct_words[j + 1]
                /\ FGt(word_similarity(user_words[i + 1], correct_words[i + 1]),
                       Float(5, 10))
                /\ FLt(word_similarity(user_words[i + 1], correct_words[i + 1]),
                       Float(8, 10))
                /\ \A j \in search_start(i)..search_end(user_words, i) - 1 :
                       j # i => ~FGt(word_similarity(user_words[j + 1],
                                                     correct_words[i + 1]),
                                     word_similarity(user_words[i + 1],
                                                     correct_words[i + 1])))
                   => /\ ~result[1]
                      /\ result[3]
                           = << mistake(i, user_words[i + 1],
                                        correct_words[i + 1],
                                        word_similarity(user_words[i + 1],
                                                        correct_words[i + 1])) >>

\* C15: when the candidate is the reference without its token of index i and
\* the tokens of the reference have similarities of at most 0.5 to one
\* another, compare_texts_detailed returns exactly one mistake: the missing
\* word at position i, with recognized None and similarity 0.0.
C15_OneMissing ==
    pc = "done"
        => \A i \in 0..Len(Split(correct_normalized_text)) - 1 :
               (/\ Split(user_normalized_text)
                     = Slice(Split(correct_normalized_text), 0, i)
                         \o Slice(Split(correct_normalized_text), i + 1,
                                  Len(Split(correct_normalized_text)))
                /\ \A j, k \in 1..Len(Split(correct_normalized_text)) :
                       j < k => FLe(word_similarity(
                                        Split(correct_normalized_text)[j],
                                        Split(correct_normalized_text)[k]),
                                    Float(5, 10)))
                   => result[3]
                        = << mistake(i, None,
                                     Split(correct_normalized_text)[i + 1],
                                     Zero) >>

\* C15, amended: the same, for a candidate that keeps at least one token.
C15_OneMissingOfSeveral ==
    (pc = "done" /\ Split(user_normalized_text) # <<>>)
        => \A i \in 0..Len(Split(correct_normalized_text)) - 1 :
               (/\ Split(user_normalized_text)
                     = Slice(Split(correct_normalized_text), 0, i)
                         \o Slice(Split(correct_normalized_text), i + 1,
                                  Len(Split(correct_normalized_text)))
                /\ \A j, k \in 1..Len(Split(correct_normalized_text)) :
                       j < k => FLe(word_similarity(
                                        Split(correct_normalized_text)[j],
                                        Split(correct_normalized_text)[k]),
                                    Float(5, 10)))
                   => result[3]
                        = << mistake(i, None,
                                     Split(correct_normalized_text)[i + 1],
                                     Zero) >>

\* the candidate "η μητερα το βιβλιο" was graded against "η μητερα διαβαζει
\* το βιβλιο": one missing word at position 2, and the two tokens behind it
\* matched
C15_MissingInTheMiddle ==
    /\ pc = "done"
    /\ correct_words = Slice(ExampleSentences[2], 0, 5)
    /\ user_words = Slice(ExampleSentences[2], 0, 2)
                       \o Slice(ExampleSentences[2], 3, 5)
    /\ user_idx = 4
    /\ mistakes = << mistake(2, None, ExampleSentences[2][3], Zero) >>

\* C16: when the candidate is the reference with one more token, at index k,
\* whose similarity to every reference token is below 0.8,
\* compare_texts_detailed returns exactly one mistake: the extra word, with
\* correct None and the added token as recognized.
C16_OneExtra ==
    pc = "done"
        => \A k \in 0..Len(user_words) - 1 :
               (/\ correct_words
                     = Slice(user_words, 0, k)
                         \o Slice(user_words, k + 1, Len(user_words))
                /\ \A j \in 1..Len(correct_words) :
                       FLt(word_similarity(user_words[k + 1], correct_words[j]),
                           Float(8, 10)))
                   => /\ Len(result[3]) = 1
                      /\ result[3][1].correct = None
                      /\ result[3][1].recognized = user_words[k + 1]

\* C17: for the empty candidate compare_texts returns (False, 0.0) and
\* compare_texts_detailed returns (False, 0.0, []), whatever the reference,
\* the empty reference included.
C17_EmptyCandidateRejected ==
    (pc = "done" /\ user_text = <<>>)
        => result = IF fn = "compare_texts" THEN <<FALSE, Zero>>
                    ELSE <<FALSE, Zero, <<>>>>

\* compare_texts returned for the empty candidate and the empty reference
C17_BothEmpty ==
    /\ pc = "done"
    /\ fn = "compare_texts"
    /\ user_text = <<>> /\ correct_text = <<>>
    /\ result = <<FALSE, Zero>>

\* C18: a candidate that differs from the reference only by accent marks is
\* accepted by compare_texts with a similarity of about 0.98 (here: within
\* 0.01 of it).
C18_AccentsAbout098 ==
    (/\ pc = "done"
     /\ user_text # correct_text
     /\ remove_greek_accents(user_text) = remove_greek_accents(correct_text))
        => /\ result[1]
           /\ FGt(result[2], Float(97, 100))
           /\ FLt(result[2], Float(99, 100))

\* C18, amended: a candidate that differs from the reference only by accent
\* marks is accepted by compare_texts with similarity 1.0.
C18_AccentsExact ==
    (/\ pc = "done"
     /\ user_text # correct_text
     /\ remove_greek_accents(user_text) = remove_greek_accents(correct_text))
        => result = <<TRUE, One>>

\* compare_texts returned for the candidate "εγω" and the reference "εγώ"
C18_EgoGraded ==
    /\ pc = "done"
    /\ user_text = <<"ε", "γ", "ω">>
    /\ correct_text = <<"ε", "γ", "ώ">>
    /\ result[1]

\* C19: number_to_greek returns a spelling exactly for the integers 0..1000
\* and None for every other input; "15" gives "δεκαπέντε", "21" gives
\* "είκοσι ένα", "100" gives "εκατό", "1000" gives "χίλια", and for 101..999
\* that are no multiple of 100 the result is the hundreds word, a space and
\* number_to_greek of the remainder.
C19_NumberToGreek ==
    pc = "done"
        => /\ result # None
                <=> (/\ IntParses(user_text)
                     /\ Len(IntDigits(user_text)) <= MaxNumberDigits
                     /\ IntValue(user_text) \in 0..1000)
           /\ user_text = <<"1", "5">> => result = <<"δ", "ε", "κ", "α", "π", "έ", "ν", "τ", "ε">>
           /\ user_text = <<"2", "1">> => result = <<"ε", "ί", "κ", "ο", "σ", "ι", " ", "έ", "ν", "α">>
           /\ user_text = <<"1", "0", "0">> => result = <<"ε", "κ", "α", "τ", "ό">>
           /\ user_text = <<"1", "0", "0", "0">> => result = <<"χ", "ί", "λ", "ι", "α">>
           /\ user_text = <<"1", "5", "0", "0">> => result = None
           /\ user_text = <<"1", "_", "5">> => result = number_to_greek(<<"1", "5">>)
           /\ user_text = ZeroDigits(int_max_str_digits - 1) \o <<"5">>
                  => result = <<"π", "έ", "ν", "τ", "ε">>
           /\ user_text = ZeroDigits(int_max_str_digits) \o <<"5">> => result = None
           /\ (/\ IntParses(user_text)
               /\ Len(IntDigits(user_text)) <= MaxNumberDigits
               /\ IntValue(user_text) \in 101..999
               /\ IntValue(user_text) % 100 # 0)
                  => result
                       = hundreds((IntValue(user_text) \div 100) * 100) \o Sp
                           \o number_to_greek(
                                  DecimalString(IntValue(user_text) % 100))

\* number_to_greek returned the three words of 999
C19_ThreeWords ==
    /\ pc = "done"
    /\ user_text = <<"9", "9", "9">>
    /\ result = hundreds(900) \o Sp \o tens(90) \o Sp \o basic_numbers(9)

\* C20: when compare_texts reaches its word-level comparison with content
\* words on both sides, main_similarity at least 0.85 and different
\* sequences of articles, it returns is_correct = False and the similarity
\* main_similarity * 0.7.
C20_ArticlePenalty ==
    (/\ pc = "done"
     /\ user_text # <<>>
     /\ ~normalized_match(user_normalized_text, correct_normalized_text)
     /\ main_words(Split(user_normalized_text)) # <<>>
     /\ main_words(Split(correct_normalized_text)) # <<>>
     /\ FGe(average_similarity(main_words(Split(user_normalized_text)),
                               main_words(Split(correct_normalized_text))),
            Float(85, 100))
     /\ articles(Split(user_normalized_text))
          # articles(Split(correct_normalized_text)))
        => result
             = << FALSE,
                  FMul(average_similarity(
                           main_words(Split(user_normalized_text)),
                           main_words(Split(correct_normalized_text))),
                       Float(7, 10)) >>

\* C21: when both normalized texts have content words, their sequences of
\* articles are equal and a candidate content word and a reference content
\* word have a similarity above 0.92, compare_texts returns is_correct = True
\* with a similarity of at least 0.95 times that of the pair, whatever the
\* other content words are.
C21_BestPairForcesAccept ==
    (/\ pc = "done"
     /\ articles(Split(user_normalized_text))
          = articles(Split(correct_normalized_text)))
        => \A i \in 1..Len(main_words(Split(user_normalized_text))) :
               \A j \in 1..Len(main_words(Split(correct_normalized_text))) :
                   FGt(word_similarity(
                           main_words(Split(user_normalized_text))[i],
                           main_words(Split(correct_normalized_text))[j]),
                       Float(92, 100))
                       => /\ result[1]
                          /\ FGe(result[2],
                                 FMul(word_similarity(
                                          main_words(Split(user_normalized_text))[i],
                                          main_words(Split(correct_normalized_text))[j]),
                                      Float(95, 100)))

\* compare_texts accepted with 0.95 a candidate whose content words average
\* a similarity below 0.75 to those of the reference
C21_AcceptedByOnePair ==
    /\ pc = "done"
    /\ result = <<TRUE, Float(95, 100)>>
    /\ main_words(Split(user_normalized_text)) # <<>>
    /\ main_words(Split(correct_normalized_text)) # <<>>
    /\ FLt(average_similarity(main_words(Split(user_normalized_text)),
                              main_words(Split(correct_normalized_text))),
           Float(75, 100))

\* C22: over the iterations of the reference loop user_idx never decreases
\* and stays within 0..len(user_words); an iteration that records a missing
\* word leaves it unchanged, and an iteration that changes it sets it to the
\* index of the best word of the window plus one.
C22_CursorForward ==
    [][(pc = "loop" /\ pc' = "loop")
          => /\ user_idx <= user_idx'
             /\ 0 <= user_idx' /\ user_idx' <= Len(user_words)
             /\ (/\ Len(mistakes') = Len(mistakes) + 1
                 /\ mistakes'[Len(mistakes')].recognized = None)
                    => user_idx' = user_idx
             /\ user_idx' # user_idx
                    => user_idx'
                         = window_match(user_words,
                                        correct_words[correct_idx + 1],
                                        user_idx)[2] + 1]_vars

\* the loop recorded a missing word after it had matched two tokens, and
\* user_idx is still 2
C22_CursorKept ==
    /\ pc = "loop"
    /\ user_idx = 2
    /\ correct_idx = 3
    /\ mistakes = << mistake(2, None, correct_words[3], Zero) >>

\* C23: the reference loop looks only at the candidate tokens of the indices
\* max(0, user_idx - 1) .. min(len(user_words), user_idx + 4) - 1: when some
\* candidate token scores above 0.5 against the reference token and every
\* such token is at an index of at least user_idx + 4 or below user_idx - 1,
\* the iteration records a missing word and leaves user_idx alone; and an
\* iteration that moves user_idx took a token of the window.
C23_WindowOnly ==
    [][(pc = "loop" /\ pc' = "loop")
          => /\ (/\ \E j \in 0..Len(user_words) - 1 :
                        FGt(word_similarity(user_words[j + 1],
                                            correct_words[correct_idx + 1]),
                            Float(5, 10))
                 /\ \A j \in 0..Len(user_words) - 1 :
                        FGt(word_similarity(user_words[j + 1],
                                            correct_words[correct_idx + 1]),
                            Float(5, 10))
                            => (j >= user_idx + 4 \/ j < user_idx - 1))
                    => /\ mistakes'
                            = Append(mistakes,
                                     mistake(correct_idx, None,
                                             correct_words[correct_idx + 1],
                                             Zero))
                       /\ user_idx' = user_idx
             /\ user_idx' # user_idx
                    => /\ user_idx' - 1 >= Max2(0, user_idx - 1)
                       /\ user_idx' - 1 < Min2(Len(user_words), user_idx + 4)]_vars

\* the reference token stands at index 4 of the candidate, outside the
\* window of user_idx = 0, and was recorded as missing
C23_BeyondTheWindow ==
    /\ pc = "loop"
    /\ correct_idx = 1
    /\ user_idx = 0
    /\ Len(user_words) >= 5
    /\ user_words[5] = correct_words[1]
    /\ mistakes = << mistake(0, None, correct_words[1], Zero) >>

\* C24: for two words that are equal neither without their accents nor in
\* their canonical forms, both of at least 3 letters, whose last two letters
\* differ and whose letters before the last two are the same,
\* word_similarity returns exactly 0.65, which is above 0.5 and below 0.8:
\* a substitution for the reference loop, never a match.
C24_SameRootScores065 ==
    (/\ pc = "done"
     /\ remove_greek_accents(user_text) # remove_greek_accents(correct_text)
     /\ normalize_greek_i_sound(remove_greek_accents(user_text))
          # normalize_greek_i_sound(remove_greek_accents(correct_text))
     /\ Len(user_text) >= 3 /\ Len(correct_text) >= 3
     /\ SubSeq(remove_greek_accents(user_text),
               Len(user_text) - 1, Len(user_text))
          # SubSeq(remove_greek_accents(correct_text),
                   Len(correct_text) - 1, Len(correct_text))
     /\ SubSeq(remove_greek_accents(user_text), 1, Len(user_text) - 2)
          = SubSeq(remove_greek_accents(correct_text),
                   1, Len(correct_text) - 2))
        => result = Float(65, 100)

\* word_similarity returned 0.65 for two words of three letters
C24_ThreeLetterForms ==
    /\ pc = "done"
    /\ Len(user_text) = 3 /\ Len(correct_text) = 3
    /\ result = Float(65, 100)

\* C25: for two words that reach the edit-distance stage of word_similarity
\* (their canonical forms differ and neither the root/suffix stage nor the
\* middle stage returned) and whose prefixes of three letters have an
\* edit-distance similarity below 0.67, word_similarity returns 0.6 times
\* the normalized edit-distance similarity with its floor, whatever the
\* lengths of the words.
C25_PrefixPenalty ==
    (/\ pc = "done"
     /\ normalize_greek_i_sound(remove_greek_accents(user_text))
          # normalize_greek_i_sound(remove_greek_accents(correct_text))
     /\ ~root_suffix_stage(remove_greek_accents(user_text),
                           remove_greek_accents(correct_text))
     /\ ~middle_stage(remove_greek_accents(user_text),
                      remove_greek_accents(correct_text))
     /\ FLt(FSub(One,
                 Float(levenshtein_distance(
                         Slice(remove_greek_accents(user_text), 0, 3),
                         Slice(remove_greek_accents(correct_text), 0, 3)),
                     3)),
            Float(67, 100)))
        => result = FMul(floor_adjusted_similarity(
                             remove_greek_accents(user_text),
                             remove_greek_accents(correct_text)),
                         Float(6, 10))

\* C25, amended: the same when both words have at least 4 letters; when one
\* of them is shorter the similarity with its floor is returned as it is.
C25_PrefixPenaltyLongWords ==
    (/\ pc = "done"
     /\ normalize_greek_i_sound(remove_greek_accents(user_text))
          # normalize_greek_i_sound(remove_greek_accents(correct_text))
     /\ ~root_suffix_stage(remove_greek_accents(user_text),
                           remove_greek_accents(correct_text))
     /\ ~middle_stage(remove_greek_accents(user_text),
                      remove_greek_accents(correct_text))
     /\ FLt(FSub(One,
                 Float(levenshtein_distance(
                         Slice(remove_greek_accents(user_text), 0, 3),
                         Slice(remove_greek_accents(correct_text), 0, 3)),
                     3)),
            Float(67, 100)))
        => result = IF Min2(Len(user_text), Len(correct_text)) >= 4
                    THEN FMul(floor_adjusted_similarity(
                                  remove_greek_accents(user_text),
                                  remove_greek_accents(correct_text)),
                              Float(6, 10))
                    ELSE floor_adjusted_similarity(
                             remove_greek_accents(user_text),
                             remove_greek_accents(correct_text))

\* word_similarity returned 0.6 * 0.75 for "γαλα" and "καλα"
C25_GalaKala ==
    /\ pc = "done"
    /\ user_text = <<"γ", "α", "λ", "α">>
    /\ correct_text = <<"κ", "α", "λ", "α">>
    /\ result = FMul(Float(75, 100), Float(6, 10))

\* C26: for two words not settled by the equality stages or the root/suffix
\* stage, whose lengths differ by at most 1 and whose common prefix covers
\* at least 80% of the length of the shorter one, word_similarity returns at
\* least 0.7.
C26_FloorOfEditDistance ==
    (/\ pc = "done"
     /\ normalize_greek_i_sound(remove_greek_accents(user_text))
          # normalize_greek_i_sound(remove_greek_accents(correct_text))
     /\ ~root_suffix_stage(remove_greek_accents(user_text),
                           remove_greek_accents(correct_text))
     /\ Abs(Len(remove_greek_accents(user_text))
              - Len(remove_greek_accents(correct_text))) <= 1
     /\ 10 * common_prefix(remove_greek_accents(user_text),
                           remove_greek_accents(correct_text))
          >= 8 * Min2(Len(remove_greek_accents(user_text)),
                      Len(remove_greek_accents(correct_text))))
        => FGe(result, Float(7, 10))

\* C26, amended: the same for two words that the middle stage does not
\* settle either.
C26_FloorAfterMiddleStage ==
    (/\ pc = "done"
     /\ normalize_greek_i_sound(remove_greek_accents(user_text))
          # normalize_greek_i_sound(remove_greek_accents(correct_text))
     /\ ~root_suffix_stage(remove_greek_accents(user_text),
                           remove_greek_accents(correct_text))
     /\ Abs(Len(remove_greek_accents(user_text))
              - Len(remove_greek_accents(correct_text))) <= 1
     /\ 10 * common_prefix(remove_greek_accents(user_text),
                           remove_greek_accents(correct_text))
          >= 8 * Min2(Len(remove_greek_accents(user_text)),
                      Len(remove_greek_accents(correct_text)))
     /\ ~middle_stage(remove_greek_accents(user_text),
                      remove_greek_accents(correct_text)))
        => FGe(result, Float(7, 10))

\* word_similarity raised an edit-distance similarity below 0.7 to the floor
\* for two words with a common prefix
C26_RaisedToFloor ==
    /\ pc = "done"
    /\ common_prefix(user_text, correct_text) >= 1
    /\ FLt(FSub(One, Float(levenshtein_distance(user_text, correct_text),
                         Max2(Len(user_text), Len(correct_text)))),
           Float(7, 10))
    /\ ~middle_stage(user_text, correct_text)
    /\ result = Float(7, 10)

\* the classic edit distance with unit costs, by its recurrence on the first
\* characters: the fewest insertions, deletions and substitutions that turn
\* a into b
RECURSIVE EditDistance(_, _)
EditDistance(a, b) ==
    IF a = <<>> THEN Len(b)
    ELSE IF b = <<>> THEN Len(a)
    ELSE Min2(Min2(EditDistance(Tail(a), b) + 1, EditDistance(a, Tail(b)) + 1),
              EditDistance(Tail(a), Tail(b)) + (IF a[1] = b[1] THEN 0 ELSE 1))

\* C27: levenshtein_distance(a, b) is the classic unit-cost edit distance of
\* a and b; it is the same for (b, a), it is 0 exactly when a = b, and it
\* lies between the difference of the lengths and the greater length.
C27_Levenshtein ==
    (pc = "done")
        => /\ result = EditDistance(user_text, correct_text)
           /\ result = levenshtein_distance(correct_text, user_text)
           /\ (result = 0) <=> (user_text = correct_text)
           /\ Abs(Len(user_text) - Len(correct_text)) <= result
           /\ result <= Max2(Len(user_text), Len(correct_text))

\* levenshtein_distance returned 2 for "αβ" and "βαγ": one insertion and one
\* substitution, with the shorter string first
C27_InsertionAndSubstitution ==
    /\ pc = "done"
    /\ user_text = <<"α", "β">>
    /\ correct_text = <<"β", "α", "γ">>
    /\ result = 2

\* C28: normalize_greek_i_sound works token by token and keeps the number of
\* tokens: a token that is one of the articles ο, η, το, οι, τα, του, της,
\* των is returned unchanged at the same index, and the output of any other
\* token, which is what the function returns for that token alone, contains
\* neither η nor υ.
C28_TokenByToken ==
    (pc = "done")
        => /\ Len(Split(result)) = Len(Split(user_text))
           /\ \A i \in 1..Len(Split(user_text)) :
                 /\ Split(result)[i] = normalize_greek_i_sound(Split(user_text)[i])
                 /\ IF Split(user_text)[i]
                         \in { <<"ο">>, <<"η">>, <<"τ", "ο">>, <<"ο", "ι">>,
                               <<"τ", "α">>, <<"τ", "ο", "υ">>,
                               <<"τ", "η", "ς">>, <<"τ", "ω", "ν">> }
                    THEN Split(result)[i] = Split(user_text)[i]
                    ELSE \A k \in 1..Len(Split(result)[i]) :
                             Split(result)[i][k] \notin {"η", "υ"}

\* normalize_greek_i_sound returned "η τι" for "η τη": the article kept, the
\* other token rewritten
C28_ArticleKeptWordRewritten ==
    /\ pc = "done"
    /\ user_text = <<"η", " ", "τ", "η">>
    /\ result = <<"η", " ", "τ", "ι">>

\* C29: in the reference loop no candidate token is consumed twice: an
\* iteration that takes a candidate token as its best match (it records no
\* missing word) takes one at or after user_idx, never the token of index
\* user_idx - 1 that an earlier iteration took.
C29_NoTokenTwice ==
    [][(/\ pc = "loop" /\ pc' = "loop"
        /\ ~(/\ Len(mistakes') = Len(mistakes) + 1
             /\ mistakes'[Len(mistakes')].recognized = None))
          => user_idx' - 1 >= user_idx]_vars

\* C30: compare_texts does not penalise additional content words of the
\* candidate: when the content words of the reference are pairwise distinct,
\* each of them is one of the content words of the candidate and the two
\* lists of articles are equal, compare_texts returns (True, 1.0), however
\* many other content words the candidate has.
C30_ExtraContentWords ==
    (/\ pc = "done"
     /\ \A i, j \in 1..Len(main_words(Split(correct_normalized_text))) :
            i # j => main_words(Split(correct_normalized_text))[i]
                        # main_words(Split(correct_normalized_text))[j]
     /\ \A i \in 1..Len(main_words(Split(correct_normalized_text))) :
            InList(main_words(Split(correct_normalized_text))[i],
                   main_words(Split(user_normalized_text)))
     /\ articles(Split(user_normalized_text))
          = articles(Split(correct_normalized_text)))
        => result = <<TRUE, One>>

\* C30, amended: the same for a reference with at least one content word,
\* except that a candidate which differs from the reference and has the same
\* canonical form gets (True, 0.98).
C30_ExtraContentWordsOfAReference ==
    (/\ pc = "done"
     /\ \A i, j \in 1..Len(main_words(Split(correct_normalized_text))) :
            i # j => main_words(Split(correct_normalized_text))[i]
                        # main_words(Split(correct_normalized_text))[j]
     /\ \A i \in 1..Len(main_words(Split(correct_normalized_text))) :
            InList(main_words(Split(correct_normalized_text))[i],
                   main_words(Split(user_normalized_text)))
     /\ articles(Split(user_normalized_text))
          = articles(Split(correct_normalized_text))
     /\ main_words(Split(correct_normalized_text)) # <<>>)
        => result = IF /\ user_normalized_text # correct_normalized_text
                       /\ normalize_greek_i_sound(user_normalized_text)
                            = normalize_greek_i_sound(correct_normalized_text)
                    THEN <<TRUE, Float(98, 100)>>
                    ELSE <<TRUE, One>>

\* compare_texts returned (True, 1.0) for a candidate with the content word
\* of the reference and another content word
C30_OneMoreContentWord ==
    /\ pc = "done"
    /\ Len(main_words(Split(correct_normalized_text))) = 1
    /\ Len(main_words(Split(user_normalized_text))) = 2
    /\ InList(main_words(Split(correct_normalized_text))[1],
              main_words(Split(user_normalized_text)))
    /\ main_words(Split(user_normalized_text))[1]
         # main_words(Split(user_normalized_text))[2]
    /\ result = <<TRUE, One>>

====
